---------------------------- MODULE Spec2Model ----------------------------
(***************************************************************************)
(* Balance-aware plan sizing and normalisation of goblin-solana-agent:     *)
(*   planner/exec_ready_planner.py  decide_size, build_exec_ready_plan     *)
(*   planner/llm_planner.py         _sanitize_actions and its helpers      *)
(*                                                                         *)
(* Representation.                                                         *)
(*  - A lamport amount is an integer.  A SOL float s that the code turns   *)
(*    into lamports is represented by the integer int(s * 1e9) it yields.  *)
(*  - The sanitizer works on SOL floats and prints them with 9 decimals.   *)
(*    There an amount is an integer number of ticks, TicksPerLamport ticks *)
(*    to the lamport, so that a float may lie between two printable        *)
(*    values and printing has to round.                                    *)
(*  - A Python dict is a record with one field per key the code reads; a   *)
(*    key that may be missing holds an Opt ([has, v]) or the NoKey string. *)
(***************************************************************************)
EXTENDS Integers, Sequences, FiniteSets, TLC

VARIABLES
    pc,            \* which entry point ran last: "idle" before any call
    ds_balance,    \* decide_size: balance_lamports argument
    ds_desired,    \* decide_size: desired_lamports argument
    ds_result,     \* decide_size: returned value
    raw_plan,      \* build_exec_ready_plan: raw_plan argument
    wallet_state,  \* build_exec_ready_plan: wallet_state argument
    desired_arg,   \* build_exec_ready_plan: desired_lamports argument (Opt)
    exec_plan,     \* build_exec_ready_plan: returned mapping
    san_actions,   \* _sanitize_actions: actions argument
    san_cfg,       \* _sanitize_actions: max_actions, budget, cap, auto_micro
    san_res,       \* _sanitize_actions: result of the first pass (out, log, ...)
    san_res2,      \* _sanitize_actions: result of sanitizing san_res.out again
    gen_llm,       \* generate_plan: what _llm_plan_call does ([raises, plan])
    gen_wallet,    \* generate_plan: wallet_state["sol_balance"] (Opt, in ticks)
    gen_max,       \* generate_plan: max_actions argument
    gen_out,       \* generate_plan: returned mapping
    any_raw,       \* build_exec_ready_plan on any value: raw_plan ([is_dict, data])
    any_wallet,    \* build_exec_ready_plan on any value: wallet_state ([is_dict, state])
    any_out,       \* build_exec_ready_plan on any value: [raised, plan]
    mal_elems,     \* _sanitize_actions on any elements: the list ([shape, action])
    mal_cfg,       \* _sanitize_actions on any elements: the other arguments
    mal_out,       \* _sanitize_actions on any elements: [raised, out]
    call_args,     \* two concurrent plannings: the arguments of each call
    call_pc,       \* two concurrent plannings: where each call stands
    frames,        \* two concurrent plannings: the local variables of the calls
    call_out,      \* two concurrent plannings: what each call returned
    co_in,         \* amount coercion: the lamports, or the amount value, given
    co_out,        \* amount coercion: the amount and the lamports it came back as
    aw_call,       \* agent wallet: the function called, its arguments, the network
    aw_result,     \* agent wallet: what the call returned or raised
    aw_submitted   \* agent wallet: the transactions given to send_transaction

vars == <<pc, ds_balance, ds_desired, ds_result, raw_plan, wallet_state,
          desired_arg, exec_plan, san_actions, san_cfg, san_res, san_res2,
          gen_llm, gen_wallet, gen_max, gen_out, any_raw, any_wallet, any_out,
          mal_elems, mal_cfg, mal_out, call_args, call_pc, frames, call_out,
          co_in, co_out, aw_call, aw_result, aw_submitted>>

sizeVars == <<ds_balance, ds_desired, ds_result>>
planVars == <<raw_plan, wallet_state, desired_arg, exec_plan>>
sanVars  == <<san_actions, san_cfg, san_res, san_res2>>
genVars  == <<gen_llm, gen_wallet, gen_max, gen_out>>
anyVars  == <<any_raw, any_wallet, any_out>>
malVars  == <<mal_elems, mal_cfg, mal_out>>
callVars == <<call_args, call_pc, frames, call_out>>
coVars   == <<co_in, co_out>>
awVars   == <<aw_call, aw_result, aw_submitted>>

---------------------------------------------------------------------------
(* Generic helpers *)

Max(a, b) == IF a >= b THEN a ELSE b
Min(a, b) == IF a <= b THEN a ELSE b
Min3(a, b, c) == Min(a, Min(b, c))

\* An optional value: a missing key / None, or a value.
None == [has |-> FALSE, v |-> 0]
Some(x) == [has |-> TRUE, v |-> x]

\* A string field whose key is missing from the dict.
NoKey == "<nokey>"

\* All sequences over S of length 0..n.
SeqUpTo(S, n) == UNION { [1..k -> S] : k \in 0..n }

---------------------------------------------------------------------------
(* planner/exec_ready_planner.py: constants *)

LAMPORTS_PER_SOL == 1000000000
FEE_BUFFER_LAMPORTS == 500000
TIP_LAMPORTS == 100000
RENT_ATA_LAMPORTS == 2100000
\* HARD_CAP_SOL = 0.25, held as int(HARD_CAP_SOL * LAMPORTS_PER_SOL)
HARD_CAP_LAMPORTS == 250000000
BUFFERS_LAMPORTS == FEE_BUFFER_LAMPORTS + TIP_LAMPORTS + RENT_ATA_LAMPORTS
CSA_BUCKETS == <<"Conservative", "Standard", "Aggressive">>

---------------------------------------------------------------------------
(* decide_size *)

\* A mutation of decide_size: the result is not floored at 0.
decide_size_nofloor(balance_lamports, desired_lamports) ==
    LET affordable == Max(0, balance_lamports - BUFFERS_LAMPORTS)
    IN  Min3(desired_lamports, affordable, HARD_CAP_LAMPORTS)

\* A mutation of decide_size: the fee buffers are not subtracted.
decide_size_nobuffer(balance_lamports, desired_lamports) ==
    LET affordable == Max(0, balance_lamports)
    IN  Max(0, Min3(desired_lamports, affordable, HARD_CAP_LAMPORTS))

decide_size(balance_lamports, desired_lamports) ==
    LET buffers    == BUFFERS_LAMPORTS
        affordable == Max(0, balance_lamports - buffers)
        hard_cap   == HARD_CAP_LAMPORTS
    IN  Max(0, Min3(desired_lamports, affordable, hard_cap))

---------------------------------------------------------------------------
(* Amount parsing of exec_ready_planner.py *)

(* A decimal number m / 10^d: the text of a decimal string or of a JSON    *)
(* number, and the float (IEEE-754 double) nearest to it.                  *)
Dec(m, d) == [m |-> m, d |-> d]

\* 10^k
RECURSIVE TenTo(_)
TenTo(k) == IF k = 0 THEN 1 ELSE 10 * TenTo(k - 1)

(* The floats that are no number: d = -1, and m = 1 for float("inf"),      *)
(* m = 0 for float("nan"), so that `x > 0` reads x.m > 0 for them too.     *)
Inf == Dec(1, -1)
NaN == Dec(0, -1)

\* What int(x * LAMPORTS_PER_SOL) raises for the float x ("" when nothing).
IntRaises(x) ==
    IF x.d >= 0 THEN ""
    ELSE IF x.m = 0 THEN "ValueError" ELSE "OverflowError"

(* The double product float(n / 10^9) * 10^9 for an integer n > 0, by      *)
(* integer arithmetic.  With 2^e <= n < 2^(e+1) and                        *)
(* 2^E <= n / 10^9 < 2^(E+1), the double nearest n / 10^9 is M / 2^k for   *)
(* k = 52 - E and M the integer nearest n * 2^k / 10^9; its product with   *)
(* 10^9 is n + r / 2^k for r = M * 10^9 - n * 2^k, and the double nearest  *)
(* that is below n exactly when -r exceeds half the gap below n,           *)
(* 2^(e - E - 1) (half of that when n is a power of two).                  *)
RECURSIVE Log2Floor(_)
Log2Floor(n) == IF n < 2 THEN 0 ELSE 1 + Log2Floor(n \div 2)

\* -E for n < 10^9: the doublings that take n to 10^9 or beyond
RECURSIVE DoublingsToSol(_)
DoublingsToSol(n) ==
    IF n >= LAMPORTS_PER_SOL THEN 0 ELSE 1 + DoublingsToSol(2 * n)

\* 2 * a mod 10^9, and 2^8 * a mod 10^9
Double(a) == (2 * a) % LAMPORTS_PER_SOL

Double8(a) == Double(Double(Double(Double(Double(Double(Double(Double(a))))))))

\* a * 2^k mod 10^9
RECURSIVE DoubleMod(_, _)
DoubleMod(a, k) ==
    IF k = 0 \/ a = 0 THEN a
    ELSE IF k >= 8 THEN DoubleMod(Double8(a), k - 8)
    ELSE DoubleMod(Double(a), k - 1)

\* float(n / 10^9) * 10^9 is a double below the integer n (0 < n < 2^31)
ProductBelow(n) ==
    LET e == Log2Floor(n)
        E == IF n < LAMPORTS_PER_SOL THEN -DoublingsToSol(n)
             ELSE IF n < 2 * LAMPORTS_PER_SOL THEN 0 ELSE 1
        k == 52 - E
        a == DoubleMod(n % LAMPORTS_PER_SOL, k)    \* -r when r < 0
        half == IF n = 2^e THEN 2^(e - E - 2) ELSE 2^(e - E - 1)
    IN  half < a /\ 2 * a < LAMPORTS_PER_SOL

(* x * LAMPORTS_PER_SOL for the float x >= 0: its integer part and whether *)
(* its fraction reaches one half.  For a decimal of more than 9 places     *)
(* the product is taken exactly.                                           *)
FloatProduct(x) ==
    IF x.d <= 9
    THEN LET n == x.m * 10^(9 - x.d)
         IN  IF n > 0 /\ ProductBelow(n) THEN [int |-> n - 1, half |-> TRUE]
             ELSE [int |-> n, half |-> FALSE]
    ELSE [int |-> x.m \div 10^(x.d - 9),
          half |-> 2 * (x.m % 10^(x.d - 9)) >= 10^(x.d - 9)]

\* int(x * LAMPORTS_PER_SOL) for the float x: the product, cut towards zero.
SolToLamports(x) ==
    IF x.m >= 0 THEN FloatProduct(x).int
    ELSE -FloatProduct([x EXCEPT !.m = -x.m]).int

\* lamports / LAMPORTS_PER_SOL: the float nearest lamports / 10^9
from_lamports(lamports) == Dec(lamports, 9)

\* server.py to_lamports(sol_amount): int(round(sol_amount * 1_000_000_000))
to_lamports(sol_amount) ==
    LET Rounded(y) == FloatProduct(y).int + IF FloatProduct(y).half THEN 1 ELSE 0
    IN  IF sol_amount.m >= 0 THEN Rounded(sol_amount)
        ELSE -Rounded([sol_amount EXCEPT !.m = -sol_amount.m])

(* A value found under an amount key:                                      *)
(*   kind "absent"  no key, or None                                        *)
(*   kind "int"     the int n                                              *)
(*   kind "float"   the float x (a Dec)                                    *)
(*   kind "digits"  a string of len digits spelling n                      *)
(*   kind "decimal" a string spelling the decimal x (a Dec), with a point  *)
(*   kind "bad"     any other string                                       *)
AmountAbsent == [kind |-> "absent", n |-> 0, len |-> 0, x |-> Dec(0, 0)]
AmountInt(n) == [kind |-> "int", n |-> n, len |-> 0, x |-> Dec(0, 0)]
AmountFloat(m, d) == [kind |-> "float", n |-> 0, len |-> 0, x |-> Dec(m, d)]
AmountDigits(n, len) == [kind |-> "digits", n |-> n, len |-> len, x |-> Dec(0, 0)]
AmountDecimal(m, d) == [kind |-> "decimal", n |-> 0, len |-> 0, x |-> Dec(m, d)]
AmountBad == [kind |-> "bad", n |-> 0, len |-> 0, x |-> Dec(0, 0)]

Abs(n) == IF n >= 0 THEN n ELSE -n

\* _parse_amount_lamports(value)
parse_amount_lamports(value) ==
    CASE value.kind = "int" ->
            IF Abs(value.n) > LAMPORTS_PER_SOL THEN value.n
            ELSE value.n * LAMPORTS_PER_SOL
      [] value.kind = "float" -> SolToLamports(value.x)
      [] value.kind = "digits" ->
            IF value.len > 4 THEN value.n ELSE value.n * LAMPORTS_PER_SOL
      [] value.kind = "decimal" -> SolToLamports(value.x)
      [] OTHER -> 0

\* _safe_int(value, default) for an int or a missing value (an Opt)
safe_int(value, default) == IF value.has THEN value.v ELSE default

\* int(x) for a finite float x: the integer part, towards zero
IntPart(x) ==
    IF x.m >= 0 THEN x.m \div TenTo(x.d) ELSE -((-x.m) \div TenTo(x.d))

\* A mutation of _safe_int: a value that is no number reads as 0.
safe_int_value_zero(value, default) ==
    CASE value.kind \in {"int", "digits"} -> value.n
      [] value.kind \in {"float", "decimal"} -> IntPart(value.x)
      [] OTHER -> 0

(* _safe_int(value, default) for a value of any JSON kind (the kinds of    *)
(* the amount values, and "bool"): int(value) reads an int, a float and a  *)
(* string of digits, int(float(str(value))) a decimal string; a bool, None *)
(* and any other string give default.                                      *)
safe_int_value(value, default) ==
    CASE value.kind \in {"int", "digits"} -> value.n
      [] value.kind \in {"float", "decimal"} -> IntPart(value.x)
      [] OTHER -> default

\* plan_data.get(key) for a key the plan may lack
GetValue(mapping, key) ==
    IF key \in DOMAIN mapping THEN mapping[key] ELSE AmountAbsent

(* The horizon of build_exec_ready_plan.  plan.simulation, when the plan   *)
(* has the key, is [is_dict, horizon_days].                                *)
Horizon(plan) ==
    LET simulation == IF "simulation" \in DOMAIN plan /\ plan.simulation.is_dict
                      THEN plan.simulation.horizon_days ELSE AmountAbsent
        horizon    == safe_int_value(simulation,
                          safe_int_value(GetValue(plan, "horizon_days"), 30))
    IN  IF horizon <= 0 THEN 30 ELSE horizon

\* _safe_float(value) for a float or a missing value (an Opt of Dec); default 0.0
safe_float(value) == IF value.has THEN value.v ELSE Dec(0, 0)

(* A step of a plan as exec_ready_planner.py reads it: is_dict, verb (a    *)
(* string or NoKey) and params (has: it is a dict; amountLamports: an Opt  *)
(* int; amount).                                                           *)
Step(verb, amountLamports, amount) ==
    [is_dict |-> TRUE, verb |-> verb,
     params |-> [has |-> TRUE, amountLamports |-> amountLamports, amount |-> amount]]
NotADictStep ==
    [is_dict |-> FALSE, verb |-> NoKey,
     params |-> [has |-> FALSE, amountLamports |-> None, amount |-> AmountAbsent]]

\* What one step of _parse_amount_from_actions' loop yields (0: go on).
StepLamports(step) ==
    IF ~step.is_dict \/ ~step.params.has THEN 0
    ELSE IF step.params.amountLamports.has
            /\ safe_int(step.params.amountLamports, 0) > 0
         THEN safe_int(step.params.amountLamports, 0)
         ELSE Max(0, parse_amount_lamports(step.params.amount))

\* The first positive value of the sequence vals, 0 when there is none.
FirstPositive(vals) ==
    IF \E k \in 1..Len(vals) : vals[k] > 0
    THEN vals[CHOOSE k \in 1..Len(vals) :
                 vals[k] > 0 /\ \A j \in 1..(k - 1) : vals[j] <= 0]
    ELSE 0

\* _parse_amount_from_actions(actions); actions is [has (a Sequence), steps]
parse_amount_from_actions(actions) ==
    IF ~actions.has THEN 0
    ELSE FirstPositive([k \in 1..Len(actions.steps) |->
                           StepLamports(actions.steps[k])])

NoSteps == [has |-> FALSE, steps |-> <<>>]
Steps(seq) == [has |-> TRUE, steps |-> seq]

(* A raw plan: sizing and budget are [has (a dict), ...]; actions is       *)
(* [has, steps]; options is [has (a Sequence), items], each item an option *)
(* entry: is_dict, name / strategy / summary / plan_summary / rationale /  *)
(* tradeoffs (a string or NoKey) and plan ([has, steps]).                  *)

\* opt.get("plan") as _extract_desired_lamports reads it
OptionPlanLamports(opt) ==
    IF opt.is_dict THEN parse_amount_from_actions(opt.plan) ELSE 0

\* A mutation of _extract_desired_lamports: the budget mapping is not read.
extract_desired_lamports_nobudget(plan) ==
    LET sizing    == plan.sizing
        lamports1 == safe_int(sizing.desired_lamports, 0)
        sol1      == safe_float(sizing.desired_sol)
        lamports3 == parse_amount_from_actions(plan.actions)
    IN  IF sizing.has /\ lamports1 > 0 THEN lamports1
        ELSE IF sizing.has /\ sol1.m > 0 THEN SolToLamports(sol1)
        ELSE IF lamports3 > 0 THEN lamports3
        ELSE IF plan.options.has
        THEN FirstPositive([k \in 1..Len(plan.options.items) |->
                               OptionPlanLamports(plan.options.items[k])])
        ELSE 0

\* A mutation of _extract_desired_lamports: of the options only the first
\* is read.
extract_desired_lamports_firstopt(plan) ==
    LET sizing    == plan.sizing
        budget    == plan.budget
        lamports1 == safe_int(sizing.desired_lamports, 0)
        sol1      == safe_float(sizing.desired_sol)
        keys      == <<budget.per_trade_sol, budget.per_action_cap_sol,
                       budget.per_tick_sol>>
        Positive(k) == safe_float(keys[k]).m > 0
        lamports3 == parse_amount_from_actions(plan.actions)
    IN  IF sizing.has /\ lamports1 > 0 THEN lamports1
        ELSE IF sizing.has /\ sol1.m > 0 THEN SolToLamports(sol1)
        ELSE IF budget.has /\ \E k \in 1..3 : Positive(k)
        THEN SolToLamports(safe_float(
                 keys[CHOOSE k \in 1..3 :
                         Positive(k) /\ \A j \in 1..(k - 1) : ~Positive(j)]))
        ELSE IF lamports3 > 0 THEN lamports3
        ELSE IF plan.options.has /\ Len(plan.options.items) >= 1
        THEN Max(0, OptionPlanLamports(plan.options.items[1]))
        ELSE 0

\* _extract_desired_lamports(plan)
extract_desired_lamports(plan) ==
    LET sizing    == plan.sizing
        budget    == plan.budget
        lamports1 == safe_int(sizing.desired_lamports, 0)
        sol1      == safe_float(sizing.desired_sol)
        keys      == <<budget.per_trade_sol, budget.per_action_cap_sol,
                       budget.per_tick_sol>>
        Positive(k) == safe_float(keys[k]).m > 0
        lamports3 == parse_amount_from_actions(plan.actions)
    IN  IF sizing.has /\ lamports1 > 0 THEN lamports1
        ELSE IF sizing.has /\ sol1.m > 0 THEN SolToLamports(sol1)
        ELSE IF budget.has /\ \E k \in 1..3 : Positive(k)
        THEN SolToLamports(safe_float(
                 keys[CHOOSE k \in 1..3 :
                         Positive(k) /\ \A j \in 1..(k - 1) : ~Positive(j)]))
        ELSE IF lamports3 > 0 THEN lamports3
        ELSE IF plan.options.has
        THEN FirstPositive([k \in 1..Len(plan.options.items) |->
                               OptionPlanLamports(plan.options.items[k])])
        ELSE 0

\* str(verb).upper() for the verbs of the steps
Upper(verb) ==
    CASE verb = "balance" -> "BALANCE"
      [] verb = "quote" -> "QUOTE"
      [] verb = "swap" -> "SWAP"
      [] verb = "stake" -> "STAKE"
      [] verb = "unstake" -> "UNSTAKE"
      [] OTHER -> verb

\* " -> ".join(verbs), the arrow standing for the code's U+2192
RECURSIVE JoinArrow(_)
JoinArrow(verbs) ==
    IF Len(verbs) = 0 THEN ""
    ELSE IF Len(verbs) = 1 THEN verbs[1]
    ELSE verbs[1] \o " -> " \o JoinArrow(Tail(verbs))

\* A string is truthy when it is there and not empty.
Truthy(str) == str # NoKey /\ str # ""

\* The option _prepare_options builds for bucket idx out of options_list.
PreparedOption(options_list, idx) ==
    LET bucket == CSA_BUCKETS[idx]
        source == IF idx <= Len(options_list) THEN options_list[idx]
                  ELSE [is_dict |-> FALSE]
        is_dict == source.is_dict
        name   == IF is_dict /\ source.name # NoKey THEN source.name ELSE bucket
        plan   == IF is_dict /\ source.plan.has THEN source.plan.steps ELSE <<>>
        given  == IF is_dict /\ Truthy(source.strategy) THEN source.strategy
                  ELSE IF is_dict /\ Truthy(source.summary) THEN source.summary
                  ELSE IF is_dict /\ Truthy(source.plan_summary)
                  THEN source.plan_summary
                  ELSE ""
        withVerb == SelectSeq(plan, LAMBDA step : step.is_dict /\ Truthy(step.verb))
        verbs  == [k \in 1..Len(withVerb) |-> Upper(withVerb[k].verb)]
        strategy == IF given # "" THEN given
                    ELSE IF Len(verbs) > 0 THEN JoinArrow(verbs)
                    ELSE bucket \o " scenario"
    IN  [name |-> name, bucket |-> bucket, plan |-> plan, strategy |-> strategy,
         rationale |-> IF is_dict /\ source.rationale # NoKey
                       THEN source.rationale ELSE "",
         tradeoffs |-> IF is_dict /\ source.tradeoffs # NoKey
                       THEN source.tradeoffs ELSE "{}"]

\* A mutation of _prepare_options: one option per source entry, none padded.
prepare_options_nopad(raw_options) ==
    LET options_list == IF raw_options.has THEN raw_options.items ELSE <<>>
    IN  [idx \in 1..Min(3, Len(options_list)) |-> PreparedOption(options_list, idx)]

\* _prepare_options(raw_options)
prepare_options(raw_options) ==
    LET options_list == IF raw_options.has THEN raw_options.items ELSE <<>>
    IN  [idx \in 1..Len(CSA_BUCKETS) |-> PreparedOption(options_list, idx)]

\* The balance build_exec_ready_plan derives from wallet_state, in lamports.
WalletLamports(wallet) ==
    IF ~wallet.given THEN 0
    ELSE IF safe_int(wallet.lamports, 0) # 0 THEN safe_int(wallet.lamports, 0)
    ELSE SolToLamports(safe_float(wallet.sol_balance))

\* The keys of the mapping build_exec_ready_plan returns ("account" is added
\* only for a raw plan with an account or wallet entry, which none here has).
EXEC_KEYS ==
    {"goal", "summary", "frame", "options", "baseline", "sizing",
     "playback_text", "risks", "horizon_days", "raw_plan"}

\* out.get("actions", []) on a mapping build_exec_ready_plan returned
ExecActions(out) == IF "actions" \in out.keys THEN out.actions ELSE <<>>

\* build_exec_ready_plan(goal, raw_plan, wallet_state, desired_lamports):
\* the keys, and the sizing and options entries, of the returned mapping.
build_exec_ready_plan(plan, wallet, desired_lamports) ==
    LET balance_lamports == WalletLamports(wallet)
        desired0 == IF desired_lamports.has THEN desired_lamports.v
                    ELSE extract_desired_lamports(plan)
        desired  == Max(0, desired0)
        final_lamports == decide_size(balance_lamports, desired)
    IN  [keys |-> EXEC_KEYS,
         options |-> prepare_options(plan.options),
         sizing |-> [desired_lamports |-> desired,
                     final_lamports |-> final_lamports,
                     buffers_lamports |-> BUFFERS_LAMPORTS],
         horizon_days |-> Horizon(plan)]

(* What build_exec_ready_plan(goal, raw_plan, wallet_state) does on a      *)
(* value of any shape.  raw is [is_dict, data]: data is the raw plan when  *)
(* it is a dict.  wallet is [is_dict, state]: state.given says the value   *)
(* is truthy, and state holds its entries when it is a dict.               *)
EmptyPlanData ==
    [sizing  |-> [has |-> FALSE, desired_lamports |-> None, desired_sol |-> None],
     budget  |-> [has |-> FALSE, per_trade_sol |-> None,
                  per_action_cap_sol |-> None, per_tick_sol |-> None],
     actions |-> NoSteps,
     options |-> [has |-> FALSE, items |-> <<>>]]

\* plan_data = raw_plan if isinstance(raw_plan, dict) else {}
PlanData(raw) == IF raw.is_dict THEN raw.data ELSE EmptyPlanData

\* What the wallet lines raise: .get on a value that is no mapping, int()
\* on a sol_balance that is no number.
WalletRaises(wallet) ==
    IF ~wallet.state.given THEN ""
    ELSE IF ~wallet.is_dict THEN "AttributeError"
    ELSE IF safe_int(wallet.state.lamports, 0) # 0 THEN ""
    ELSE IntRaises(safe_float(wallet.state.sol_balance))

\* What _parse_amount_lamports raises on the amount of one step.
StepRaises(step) ==
    IF ~step.is_dict \/ ~step.params.has THEN ""
    ELSE IF step.params.amountLamports.has
            /\ safe_int(step.params.amountLamports, 0) > 0 THEN ""
    ELSE IF step.params.amount.kind = "float" THEN IntRaises(step.params.amount.x)
    ELSE ""

(* What _parse_amount_from_actions raises: the first step with an amount   *)
(* that is no number, unless an earlier step ended the loop.               *)
ActionsRaise(actions) ==
    LET steps == actions.steps
        Stops(k) == StepRaises(steps[k]) # "" \/ StepLamports(steps[k]) > 0
    IN  IF ~actions.has \/ ~\E k \in 1..Len(steps) : Stops(k) THEN ""
        ELSE StepRaises(steps[CHOOSE k \in 1..Len(steps) :
                                  Stops(k) /\ \A j \in 1..(k - 1) : ~Stops(j)])

\* The steps of actions before the one that raises (all when none does).
StepsBeforeRaise(actions) ==
    IF ~actions.has THEN actions
    ELSE Steps(SelectSeq(actions.steps, LAMBDA step : StepRaises(step) = ""))

\* What _extract_desired_lamports raises.
ExtractRaises(plan) ==
    LET sizing    == plan.sizing
        budget    == plan.budget
        lamports1 == safe_int(sizing.desired_lamports, 0)
        sol1      == safe_float(sizing.desired_sol)
        keys      == <<budget.per_trade_sol, budget.per_action_cap_sol,
                       budget.per_tick_sol>>
        Positive(k) == safe_float(keys[k]).m > 0
        items     == plan.options.items
        Plan(k)   == IF items[k].is_dict THEN items[k].plan ELSE NoSteps
        Stops(k)  == ActionsRaise(Plan(k)) # ""
                        \/ parse_amount_from_actions(StepsBeforeRaise(Plan(k))) > 0
    IN  IF sizing.has /\ lamports1 > 0 THEN ""
        ELSE IF sizing.has /\ sol1.m > 0 THEN IntRaises(sol1)
        ELSE IF budget.has /\ \E k \in 1..3 : Positive(k)
        THEN IntRaises(safe_float(
                 keys[CHOOSE k \in 1..3 :
                         Positive(k) /\ \A j \in 1..(k - 1) : ~Positive(j)]))
        ELSE IF ActionsRaise(plan.actions) # "" THEN ActionsRaise(plan.actions)
        ELSE IF parse_amount_from_actions(plan.actions) > 0 THEN ""
        ELSE IF plan.options.has /\ \E k \in 1..Len(items) : Stops(k)
        THEN ActionsRaise(Plan(CHOOSE k \in 1..Len(items) :
                                  Stops(k) /\ \A j \in 1..(k - 1) : ~Stops(j)))
        ELSE ""

\* The call: the exception it raises ("" when it returns) and the mapping
\* it returns.
build_exec_ready_plan_call(raw, wallet) ==
    LET raised == IF WalletRaises(wallet) # "" THEN WalletRaises(wallet)
                  ELSE ExtractRaises(PlanData(raw))
    IN  [raised |-> raised,
         plan |-> IF raised = ""
                  THEN build_exec_ready_plan(PlanData(raw), wallet.state, None)
                  ELSE <<>>]

---------------------------------------------------------------------------
(* planner/llm_planner.py: amounts *)

\* A mutation of ALLOWED_VERBS: transfer is let through.
ALLOWED_VERBS_wide == {"balance", "quote", "swap", "stake", "unstake", "transfer"}

ALLOWED_VERBS == {"balance", "quote", "swap", "stake", "unstake"}
MONEY_VERBS == {"quote", "swap", "stake", "unstake"}

\* Ticks to the lamport: the resolution of a SOL float below the 9th decimal.
TicksPerLamport == 3
\* 0.01 SOL in ticks.
CentiSol == 10000000 * TicksPerLamport
\* The literal 0.05 of `auto_micro_sol or 0.05`.
MICRO_DEFAULT == 5 * CentiSol

(* An amount value as found under params["amount"]:                        *)
(*   kind "absent": no key, or None                                        *)
(*   kind "bad":    a string neither float() nor the regex accepts ("abc") *)
(*   kind "str":    a decimal string; val < 0 is a string such as "-1",    *)
(*                  which float() parses and the regex rejects             *)
(*   kind "num":    an int or a float                                      *)
AbsentAmt == [kind |-> "absent", val |-> 0]
BadAmt    == [kind |-> "bad", val |-> 0]
StrAmt(x) == [kind |-> "str", val |-> x]
NumAmt(x) == [kind |-> "num", val |-> x]

\* The default "0.10" of _coerce_str_amount.
DEFAULT_AMOUNT_STR == StrAmt(10 * CentiSol)

\* f"{x:.9f}": the nearest multiple of one lamport (x >= 0).
Round9Nonneg(x) ==
    LET q == x \div TicksPerLamport
        r == x % TicksPerLamport
    IN  IF 2 * r >= TicksPerLamport THEN (q + 1) * TicksPerLamport
                                    ELSE q * TicksPerLamport

Round9(x) == IF x >= 0 THEN Round9Nonneg(x) ELSE -Round9Nonneg(-x)

\* _coerce_str_amount(v, default): default is the string to fall back to.
coerce_str_amount(v, default) ==
    CASE v.kind = "num" -> StrAmt(Round9(v.val))
      [] v.kind = "str" /\ v.val >= 0 -> v
      [] OTHER -> default

\* _to_float_amount(v, fallback)
to_float_amount(v, fallback) ==
    IF v.kind \in {"num", "str"} THEN v.val ELSE fallback

\* _clamp_amount_to_budget_and_cap: the clamped string and the new remaining budget.
clamp_amount_to_budget_and_cap(amount, remaining_budget, per_action_cap, default_if_zero) ==
    LET requested0    == Max(0, to_float_amount(amount, 0))
        requested     == IF requested0 <= 0 THEN Max(0, default_if_zero) ELSE requested0
        allowed       == Min(per_action_cap, remaining_budget)
        final         == Max(0, Min(requested, allowed))
        new_remaining == Max(0, remaining_budget - final)
    IN  [amount |-> coerce_str_amount(NumAmt(final),
                        coerce_str_amount(NumAmt(default_if_zero), DEFAULT_AMOUNT_STR)),
         remaining |-> new_remaining]

---------------------------------------------------------------------------
(* planner/llm_planner.py: _sanitize_actions *)

(* An action dict: verb, params, why, risk, requires_approval, timestamp,  *)
(* chain.  why, risk and chain are a string or NoKey; requires_approval is *)
(* "True", "False" or NoKey; timestamp is a clock reading, 0 when the key  *)
(* is missing or falsy.  params is a record: has_in / has_out say whether  *)
(* the keys "in" / "out" exist, protocol is a string or NoKey.             *)
EmptyParams == [has_in |-> FALSE, has_out |-> FALSE, amount |-> AbsentAmt,
                protocol |-> NoKey]

\* (a.get("verb") or "").lower().strip()
LowerStrip(raw) ==
    CASE raw = "SWAP" -> "swap"
      [] raw = " Stake " -> "stake"
      [] raw = NoKey -> ""
      [] OTHER -> raw

BoolStr(b) == IF b THEN "True" ELSE "False"

\* The balance action inserted when none was kept.
InjectedBalance(now, chain) ==
    [verb |-> "balance", params |-> EmptyParams,
     why |-> "Confirm available funds & fee buffer", risk |-> "none",
     requires_approval |-> "False", timestamp |-> now, chain |-> chain]

\* auto_micro_sol or 0.05
MicroOrDefault(cfg) ==
    IF cfg.auto_micro.has /\ cfg.auto_micro.v # 0 THEN cfg.auto_micro.v
                                                  ELSE MICRO_DEFAULT

\* A mutation of the default: a swap needs no approval.
DefaultApproval_stake(verb) == BoolStr(verb \in {"stake", "unstake"})

\* a.setdefault("requires_approval", verb in {"swap", "stake", "unstake"})
DefaultApproval(verb) == BoolStr(verb \in {"swap", "stake", "unstake"})

\* A mutation of the in/out test: one token key is enough.
IsMalformed_both(verb, params) ==
    verb \in {"quote", "swap"} /\ ~(params.has_in \/ params.has_out)

\* `if not all(k in params for k in ("in", "out")): continue` for a quote or swap
IsMalformed(verb, params) ==
    verb \in {"quote", "swap"} /\ ~(params.has_in /\ params.has_out)

\* params.setdefault("protocol", params.get("protocol", "jito"))
WithProtocol(params) ==
    IF params.protocol = NoKey THEN [params EXCEPT !.protocol = "jito"] ELSE params

(* One iteration of `for a in actions or []` on actions[i].  The loop      *)
(* state st holds                                                          *)
(*   kept      the list `out` so far                                       *)
(*   remaining remaining_budget_sol (an Opt: None when not given)          *)
(*   acts      the caller's action dicts, as the loop has left them        *)
(*   log       one entry per action the loop clamped                       *)
(*   src       for each element of kept, the index i of the action it was  *)
(*             made from                                                   *)
(*   stop      the loop has hit `break`                                    *)
LoopBody(i, st, cfg, now) ==
    LET a    == st.acts[i]
        verb == LowerStrip(a.verb)
    IN
    IF verb \notin ALLOWED_VERBS THEN st
    ELSE
    LET params0  == a.params
        why      == IF a.why = NoKey THEN "" ELSE a.why
        risk     == IF a.risk = NoKey THEN "" ELSE a.risk
        approval == IF a.requires_approval = NoKey
                    THEN DefaultApproval(verb) ELSE a.requires_approval
        ts       == IF a.timestamp # 0 THEN a.timestamp ELSE now
        \* the caller's dict after the five in-place updates
        a1       == [a EXCEPT !.chain = cfg.chain, !.why = why, !.risk = risk,
                              !.requires_approval = approval, !.timestamp = ts]
        clamps   == verb \in MONEY_VERBS /\ st.remaining.has /\ cfg.cap.has
        default  == MicroOrDefault(cfg)
        defstr   == coerce_str_amount(NumAmt(default), DEFAULT_AMOUNT_STR)
        cl       == IF clamps
                    THEN clamp_amount_to_budget_and_cap(
                             params0.amount, st.remaining.v, cfg.cap.v, default)
                    ELSE [amount |-> params0.amount, remaining |-> 0]
        params1  == [params0 EXCEPT !.amount = cl.amount]
        rem1     == IF clamps THEN Some(cl.remaining) ELSE st.remaining
        log1     == IF clamps
                    THEN Append(st.log, [index |-> i, verb |-> verb,
                                         before |-> st.remaining.v,
                                         requested |-> params0.amount,
                                         amount |-> cl.amount,
                                         after |-> cl.remaining])
                    ELSE st.log
        dropped  == IsMalformed(verb, params1)
        coerced  == [params1 EXCEPT
                        !.amount = coerce_str_amount(params1.amount, defstr)]
        params2  == CASE verb \in {"quote", "swap"} -> coerced
                      [] verb \in {"stake", "unstake"} -> WithProtocol(coerced)
                      [] OTHER -> params1
        a2       == IF verb \in {"stake", "unstake"}
                    THEN [a1 EXCEPT !.params = params2] ELSE a1
        entry    == [verb |-> verb, params |-> params2, why |-> why,
                     risk |-> risk, requires_approval |-> approval,
                     timestamp |-> ts, chain |-> cfg.chain]
    IN
    IF dropped
    THEN [st EXCEPT !.acts[i] = a1, !.remaining = rem1, !.log = log1]
    ELSE [st EXCEPT !.acts[i] = a2, !.remaining = rem1, !.log = log1,
                    !.kept = Append(st.kept, entry),
                    !.src = Append(st.src, i),
                    !.stop = (Len(st.kept) + 1 >= cfg.max_actions)]

RECURSIVE Loop(_, _, _, _)
Loop(i, st, cfg, now) ==
    IF i > Len(st.acts) \/ st.stop THEN st
    ELSE Loop(i + 1, LoopBody(i, st, cfg, now), cfg, now)

\* list.index(x): the first position of verb v, 0 when there is none.
IndexOfVerb(list, v) ==
    IF \E k \in 1..Len(list) : list[k].verb = v
    THEN CHOOSE k \in 1..Len(list) :
            list[k].verb = v /\ \A j \in 1..(k - 1) : list[j].verb # v
    ELSE 0

\* q = list.pop(from); list.insert(to, q), for to < from (1-based).
MoveBefore(list, from, to) ==
    [k \in 1..Len(list) |->
        IF k < to \/ k > from THEN list[k]
        ELSE IF k = to THEN list[from]
        ELSE list[k - 1]]

\* `if "balance" not in verbs: out.insert(0, ...)`
InjectBalance(list, src, now, chain) ==
    IF IndexOfVerb(list, "balance") = 0
    THEN [out |-> <<InjectedBalance(now, chain)>> \o list, src |-> <<0>> \o src]
    ELSE [out |-> list, src |-> src]

\* A mutation of the try block: the quote stays where it is.
ReorderQuote_none(r) == r

\* The try block: a quote found after the first swap moves to the swap's index.
ReorderQuote(r) ==
    LET swap_idx  == IndexOfVerb(r.out, "swap")
        quote_idx == IndexOfVerb(r.out, "quote")
    IN  IF swap_idx # 0 /\ quote_idx # 0 /\ quote_idx > swap_idx
        THEN [out |-> MoveBefore(r.out, quote_idx, swap_idx),
              src |-> MoveBefore(r.src, quote_idx, swap_idx)]
        ELSE r

\* out[:max_actions], max_actions >= 0
Truncate(list, max_actions) == SubSeq(list, 1, Min(max_actions, Len(list)))

(* _sanitize_actions(actions, chain, max_actions, remaining_budget_sol,    *)
(* per_action_cap_sol, auto_micro_sol) at clock reading now.  The result   *)
(* record holds the returned list (out) and, for the properties, what the  *)
(* call went through: kept (out when the loop ended), injected (after the  *)
(* balance insertion), reordered (before the final slice), log, src (see   *)
(* LoopBody; permuted like out, 0 for the inserted balance), remaining,    *)
(* and acts.                                                               *)
sanitize_actions_result(st, inj, re, cfg) ==
    [out |-> Truncate(re.out, cfg.max_actions),
     src |-> Truncate(re.src, cfg.max_actions),
     kept |-> st.kept, injected |-> inj.out, reordered |-> re.out,
     log |-> st.log, remaining |-> st.remaining, acts |-> st.acts]

\* What follows the balance insertion: the try block, then the slice.
sanitize_actions_reorder(st, inj, cfg) ==
    sanitize_actions_result(st, inj, ReorderQuote(inj), cfg)

\* What follows the loop: the balance insertion, the try block, the slice.
sanitize_actions_tail(st, cfg, now) ==
    sanitize_actions_reorder(st, InjectBalance(st.kept, st.src, now, cfg.chain), cfg)

sanitize_actions(actions, cfg, now) ==
    sanitize_actions_tail(
        Loop(1, [kept |-> <<>>, remaining |-> cfg.budget, acts |-> actions,
                 log |-> <<>>, src |-> <<>>, stop |-> FALSE], cfg, now),
        cfg, now)

---------------------------------------------------------------------------
(* planner/llm_planner.py: _sanitize_actions on elements of any shape *)

(* An element of the actions list is [shape, action]:                      *)
(*   "dict"            a mapping with a string verb and mapping params      *)
(*   "not_a_dict"      a string, a number, None                             *)
(*   "verb_not_str"    a mapping whose verb is truthy and no string (5)     *)
(*   "verb_falsy"      a mapping whose verb is None or 0: read as ""        *)
(*   "params_not_dict" a mapping whose params is a string ("abc")           *)
(* action holds what the element's keys hold where they are well formed.   *)
Element(shape, action) == [shape |-> shape, action |-> action]

\* What the loop body raises on the element e ("" when nothing).
ElementRaises(e) ==
    CASE e.shape = "not_a_dict" -> "AttributeError"      \* a.get
      [] e.shape = "verb_not_str" -> "AttributeError"    \* (verb).lower()
      [] e.shape = "params_not_dict"
            /\ LowerStrip(e.action.verb) \in ALLOWED_VERBS -> "ValueError"  \* dict("abc")
      [] OTHER -> ""

\* The element as the loop reads it when it does not raise.
ElementAction(e) ==
    IF e.shape = "verb_falsy" THEN [e.action EXCEPT !.verb = NoKey] ELSE e.action

\* The loop has left through `break` after the actions sanitized in r.
Stopped(r, cfg) == Len(r.kept) > 0 /\ Len(r.kept) >= cfg.max_actions

(* _sanitize_actions(elems, ...): the exception it raises ("" when it      *)
(* returns) and the list it returns.  The first element the body raises on *)
(* ends the call, unless the loop left through `break` before reading it.  *)
sanitize_actions_raised(elems, cfg, bad, r) ==
    IF bad <= Len(elems) /\ ~Stopped(r, cfg) THEN ElementRaises(elems[bad]) ELSE ""

\* bad is the index of the first element the body raises on, r the result
\* of the call on the elements before it.
sanitize_actions_until(elems, cfg, bad, r) ==
    [raised |-> sanitize_actions_raised(elems, cfg, bad, r), read |-> bad - 1,
     out |-> IF sanitize_actions_raised(elems, cfg, bad, r) = "" THEN r.out ELSE <<>>]

\* The index of the first element the body raises on, Len(elems) + 1 when none.
FirstBad(elems) ==
    IF \E k \in 1..Len(elems) : ElementRaises(elems[k]) # ""
    THEN CHOOSE k \in 1..Len(elems) :
            /\ ElementRaises(elems[k]) # ""
            /\ \A j \in 1..(k - 1) : ElementRaises(elems[j]) = ""
    ELSE Len(elems) + 1

sanitize_actions_read(elems, cfg, now, bad) ==
    sanitize_actions_until(elems, cfg, bad,
        sanitize_actions([k \in 1..(bad - 1) |-> ElementAction(elems[k])], cfg, now))

sanitize_actions_call(elems, cfg, now) ==
    sanitize_actions_read(elems, cfg, now, FirstBad(elems))

---------------------------------------------------------------------------
(* planner/llm_planner.py: generate_plan *)

\* DEFAULT_POLICY: auto_micro_sol 0.05, hard_cap_sol 0.25, min_fee_buffer_sol 0.003
POLICY_AUTO_MICRO_SOL == 5 * CentiSol
POLICY_HARD_CAP_SOL == 25 * CentiSol
POLICY_MIN_FEE_BUFFER_SOL == 3 * (CentiSol \div 10)

\* A mutation of _effective_caps: no fee buffer is kept back.
effective_caps_nobuffer(wallet_sol) ==
    LET sol == IF wallet_sol.has THEN wallet_sol.v ELSE 0
    IN  [sol_balance |-> sol, fee_buffer |-> 0,
         max_affordable_sol |-> Max(0, sol),
         per_action_cap_sol |-> Max(0, Min(POLICY_HARD_CAP_SOL, Max(0, sol)))]

(* _effective_caps(policy, wallet_state) under the default policy.         *)
(* wallet_sol is wallet_state["sol_balance"] as an Opt: None when there is *)
(* no wallet state, no such key, or a value float() rejects.               *)
effective_caps(wallet_sol) ==
    LET sol            == IF wallet_sol.has THEN wallet_sol.v ELSE 0
        fee_buf        == POLICY_MIN_FEE_BUFFER_SOL
        hard_cap       == POLICY_HARD_CAP_SOL
        max_affordable == Max(0, sol - fee_buf)
        per_action_cap == Max(0, Min(hard_cap, max_affordable))
    IN  [sol_balance |-> sol, fee_buffer |-> fee_buf,
         max_affordable_sol |-> max_affordable,
         per_action_cap_sol |-> per_action_cap]

\* str(name).strip().lower() for the option names and default_option values
LowerStripName(name) ==
    CASE name = "Standard" -> "standard"
      [] name = " Yield " -> "yield"
      [] name = "YIELD" -> "yield"
      [] name = NoKey -> ""
      [] OTHER -> name

(* An option entry of the planner's output: a dict (is_dict) with name,    *)
(* strategy, rationale, tradeoffs (strings or NoKey) and plan ([has,       *)
(* steps], steps a list of action dicts), or a string (text).              *)
PlanOption(name, strategy, plan) ==
    [is_dict |-> TRUE, text |-> "", name |-> name, strategy |-> strategy,
     rationale |-> NoKey, tradeoffs |-> NoKey, plan |-> plan]
StringOption(text) ==
    [is_dict |-> FALSE, text |-> text, name |-> NoKey, strategy |-> NoKey,
     rationale |-> NoKey, tradeoffs |-> NoKey, plan |-> NoSteps]

\* The balance action of the fallback options of _as_option_dict.
CheckFundsBalance(now) ==
    [verb |-> "balance", params |-> EmptyParams,
     why |-> "Check available funds before any action.", risk |-> "none",
     requires_approval |-> "False", timestamp |-> now, chain |-> "solana"]

(* A mutation of _as_option_dict: a string item always gets the single    *)
(* balance action, whatever default_actions holds.                         *)
as_option_dict_balance(item, default_actions, now) ==
    IF item.is_dict
    THEN IF item.plan.has
         THEN [opt |-> item, shared |-> FALSE]
         ELSE [opt |-> [item EXCEPT !.plan = Steps(default_actions)],
               shared |-> default_actions # <<>>]
    ELSE [opt |-> [is_dict |-> TRUE, text |-> "",
                   name |-> IF item.text = "" THEN "Option" ELSE item.text,
                   strategy |-> "Validate funds first.",
                   rationale |-> "Normalized from string option.",
                   tradeoffs |-> "{pros: [], cons: []}",
                   plan |-> Steps(<<CheckFundsBalance(now)>>)],
          shared |-> FALSE]

(* _as_option_dict(item, default_actions): the option dict, and whether    *)
(* its plan is the list default_actions itself (shared) or a list of its   *)
(* own.  A string item is prose: json.loads rejects it.                    *)
as_option_dict(item, default_actions, now) ==
    IF item.is_dict
    THEN IF item.plan.has
         THEN [opt |-> item, shared |-> FALSE]
         ELSE [opt |-> [item EXCEPT !.plan = Steps(default_actions)],
               shared |-> default_actions # <<>>]
    ELSE [opt |-> [is_dict |-> TRUE, text |-> "",
                   name |-> IF item.text = "" THEN "Option" ELSE item.text,
                   strategy |-> "Validate funds first.",
                   rationale |-> "Normalized from string option.",
                   tradeoffs |-> "{pros: [], cons: []}",
                   plan |-> Steps(IF default_actions # <<>> THEN default_actions
                                  ELSE <<CheckFundsBalance(now)>>)],
          shared |-> default_actions # <<>>]

(* The planner's output (model_plan): default_option (a string or NoKey), *)
(* options ([kind, text, items]: kind "absent", "string" with its text, or *)
(* "list" with its items) and actions (the root list, <<>> when absent).   *)
ModelPlan(default_option, options, actions) ==
    [default_option |-> default_option, options |-> options, actions |-> actions]
OptionsAbsent == [kind |-> "absent", text |-> "", items |-> <<>>]
OptionsString(text) == [kind |-> "string", text |-> text, items |-> <<>>]
OptionsList(items) == [kind |-> "list", text |-> "", items |-> items]

\* The plan generate_plan falls back to when _llm_plan_call raises.
FallbackPlan(hints, now) ==
    LET fallback_amt == IF hints.per_action_cap_sol # 0
                        THEN hints.per_action_cap_sol ELSE POLICY_AUTO_MICRO_SOL
        amount == coerce_str_amount(NumAmt(fallback_amt), DEFAULT_AMOUNT_STR)
        Act(verb, params, why, risk, approval) ==
            [verb |-> verb, params |-> params, why |-> why, risk |-> risk,
             requires_approval |-> approval, timestamp |-> now, chain |-> "solana"]
        plan == << Act("balance", EmptyParams,
                       "Confirm available funds & fee buffer", "none", "False"),
                   Act("quote", [has_in |-> TRUE, has_out |-> TRUE,
                                 amount |-> amount, protocol |-> NoKey],
                       "Check price & route; gate by price impact",
                       "market slippage", "False"),
                   Act("stake", [EmptyParams EXCEPT !.amount = amount,
                                                    !.protocol = "jito"],
                       "Stake SOL -> JitoSOL for yield", "smart contract risk",
                       "True") >>
    IN  ModelPlan("Standard",
            OptionsList(<< [PlanOption("Standard",
                               "Validate funds, get a quote, then stake via jito if impact is acceptable.",
                               Steps(plan))
                            EXCEPT !.rationale = "Low complexity, yield-first.",
                                   !.tradeoffs = "{pros: [Earn yield], cons: [Subject to price moves]}"] >>),
            <<>>)

\* The arguments generate_plan gives _sanitize_actions (default policy).
PlanConfig(hints, max_actions) ==
    [max_actions |-> max_actions,
     budget |-> Some(hints.max_affordable_sol),
     cap |-> Some(hints.per_action_cap_sol),
     chain |-> "solana",
     auto_micro |-> Some(POLICY_AUTO_MICRO_SOL)]

\* The keys of the mapping generate_plan returns.
GENERATED_KEYS ==
    {"summary", "understanding", "policy", "token_candidates", "options",
     "default_option", "actions", "risks", "simulation", "budget", "campaign",
     "generated_at"}

(* The loop `for opt in norm_options` from option k on.  lists holds the   *)
(* action lists as the calls so far have left them: lists[0] is the root   *)
(* list model_plan["actions"], lists[j] the plan list of option j's own.   *)
\* The list option k's plan refers to: the root list when it shares it.
OptionRef(norm, k) == IF norm[k].shared THEN 0 ELSE k

RECURSIVE SanitizeOptions(_, _, _, _, _, _)
\* Option k gets r, its sanitized plan; the loop goes on with option k + 1.
SanitizeOption(k, norm, lists, cfg, now, done, r) ==
    SanitizeOptions(k + 1, norm, [lists EXCEPT ![OptionRef(norm, k)] = r.acts],
        cfg, now + 1, Append(done, [norm[k].opt EXCEPT !.plan = Steps(r.out)]))

SanitizeOptions(k, norm, lists, cfg, now, done) ==
    IF k > Len(norm) THEN done
    ELSE SanitizeOption(k, norm, lists, cfg, now, done,
             sanitize_actions(lists[OptionRef(norm, k)], cfg, now))

\* default_name = model_plan.get("default_option") or "Standard"
DefaultName(model_plan) ==
    IF model_plan.default_option \in {NoKey, ""}
    THEN "Standard" ELSE model_plan.default_option

\* raw_options: the options list, a non-empty string as a list of one, or []
RawOptions(model_plan) ==
    CASE model_plan.options.kind = "list" -> model_plan.options.items
      [] model_plan.options.kind = "string" /\ model_plan.options.text # ""
            -> <<StringOption(model_plan.options.text)>>
      [] OTHER -> <<>>

\* norm_options = [_as_option_dict(x, default_actions) for x in raw_options]
NormOptions(model_plan) ==
    [k \in 1..Len(RawOptions(model_plan)) |->
        as_option_dict(RawOptions(model_plan)[k], model_plan.actions, 1)]

\* The action lists: the root list at 0, option j's plan list at j.
ActionLists(model_plan, norm) ==
    [j \in 0..Len(norm) |->
        IF j = 0 THEN model_plan.actions ELSE norm[j].opt.plan.steps]

\* The options whose lowered, stripped name is that of default_name.
Matches(norm, default_name) ==
    { k \in 1..Len(norm) :
        LowerStripName(norm[k].opt.name) = LowerStripName(default_name) }

\* chosen = next((o for o in norm_options if ...), None): 0 when there is none
Chosen(matches) ==
    IF matches = {} THEN 0
    ELSE CHOOSE k \in matches : \A j \in matches : k <= j

\* (chosen or {}).get("plan") or model_plan.get("actions") or []: the list
\* it is, -1 for the new empty list
ChosenRef(model_plan, norm, lists, chosen) ==
    IF chosen # 0 /\ lists[OptionRef(norm, chosen)] # <<>>
    THEN OptionRef(norm, chosen)
    ELSE IF model_plan.actions # <<>> THEN 0
    ELSE -1

\* The mapping generate_plan returns; first is the sanitized chosen list.
generate_plan_out(model_plan, hints, cfg, norm, lists, chosen, chosen_ref, first) ==
    [keys |-> GENERATED_KEYS,
     options |-> SanitizeOptions(1, norm,
                     IF chosen_ref = -1 THEN lists
                     ELSE [lists EXCEPT ![chosen_ref] = first.acts],
                     cfg, 3, <<>>),
     default_option |-> DefaultName(model_plan),
     actions |-> first.out,
     budget |-> hints,
     chosen |-> chosen,
     norm_options |-> [k \in 1..Len(norm) |-> norm[k].opt]]

\* safe_actions = _sanitize_actions(chosen_actions, ...)
generate_plan_sanitize(model_plan, hints, cfg, norm, lists, chosen, chosen_ref) ==
    generate_plan_out(model_plan, hints, cfg, norm, lists, chosen, chosen_ref,
        sanitize_actions(IF chosen_ref = -1 THEN <<>> ELSE lists[chosen_ref],
                         cfg, 2))

\* The choice of the default option's list.
generate_plan_choose(model_plan, hints, cfg, norm, lists, chosen) ==
    generate_plan_sanitize(model_plan, hints, cfg, norm, lists, chosen,
        ChosenRef(model_plan, norm, lists, chosen))

\* The options are normalised.
generate_plan_normalize(model_plan, hints, cfg, norm) ==
    generate_plan_choose(model_plan, hints, cfg, norm,
        ActionLists(model_plan, norm),
        Chosen(Matches(norm, DefaultName(model_plan))))

\* The planner answers, or the fallback plan takes its place.
generate_plan_model(llm, hints, max_actions) ==
    generate_plan_normalize(
        IF llm.raises THEN FallbackPlan(hints, 1) ELSE llm.plan,
        hints, PlanConfig(hints, max_actions),
        NormOptions(IF llm.raises THEN FallbackPlan(hints, 1) ELSE llm.plan))

(* generate_plan(goal, wallet_state, market_data, policy, chain,           *)
(* max_actions) under the default policy.  llm is what _llm_plan_call      *)
(* does: [raises, plan].  The clock reads 1 while the options are          *)
(* normalised, 2 in the call that sanitizes the default actions and 2 + k  *)
(* in the call that sanitizes option k.                                    *)
generate_plan(llm, wallet_sol, max_actions) ==
    generate_plan_model(llm, effective_caps(wallet_sol), max_actions)

---------------------------------------------------------------------------
(* telegram_service/server.py: from generate_plan to build_exec_ready_plan *)

(* The amount string of a sanitized action as _parse_amount_lamports reads *)
(* it after the JSON round trip: "0" or "1" is a run of digits, "0.25" a   *)
(* decimal; digits below a lamport are cut by int().                       *)
AmountOfString(amount) ==
    CASE amount.kind = "absent" -> AmountAbsent
      [] amount.kind = "bad" -> AmountBad
      [] amount.kind = "num" -> AmountFloat(amount.val \div TicksPerLamport, 9)
      [] amount.val < 0 -> AmountDecimal(-((-amount.val) \div TicksPerLamport), 9)
      [] (amount.val \div TicksPerLamport) % LAMPORTS_PER_SOL = 0 ->
            AmountDigits((amount.val \div TicksPerLamport) \div LAMPORTS_PER_SOL, 1)
      [] OTHER -> AmountDecimal(amount.val \div TicksPerLamport, 9)

\* An action of generate_plan's output as a step of the raw plan.
StepOfAction(a) == Step(a.verb, None, AmountOfString(a.params.amount))
StepsOfActions(list) == Steps([k \in 1..Len(list) |-> StepOfAction(list[k])])

(* json.loads(json.dumps(generate_plan(...))) as build_exec_ready_plan     *)
(* reads it: no sizing key, budget with per_action_cap_sol, the root       *)
(* actions and the options.                                                *)
PlanDict(generated) ==
    [sizing  |-> [has |-> FALSE, desired_lamports |-> None, desired_sol |-> None],
     budget  |-> [has |-> TRUE, per_trade_sol |-> None,
                  per_action_cap_sol |->
                      Some(Dec(generated.budget.per_action_cap_sol \div TicksPerLamport, 9)),
                  per_tick_sol |-> None],
     actions |-> StepsOfActions(generated.actions),
     options |-> [has |-> TRUE,
                  items |-> [k \in 1..Len(generated.options) |->
                     LET o == generated.options[k]
                     IN  [is_dict |-> TRUE, name |-> o.name, strategy |-> o.strategy,
                          summary |-> NoKey, plan_summary |-> NoKey,
                          rationale |-> o.rationale, tradeoffs |-> o.tradeoffs,
                          plan |-> StepsOfActions(o.plan.steps)]]]]

\* wallet_state of _call_planner: {"sol_balance": sol, "lamports": int(sol * 1e9)}
WalletState(wallet_sol) ==
    IF ~wallet_sol.has
    THEN [given |-> FALSE, lamports |-> None, sol_balance |-> None]
    ELSE [given |-> TRUE, lamports |-> Some(wallet_sol.v \div TicksPerLamport),
          sol_balance |-> Some(Dec(wallet_sol.v \div TicksPerLamport, 9))]

---------------------------------------------------------------------------
(* Two plannings at once: plan_cmd runs each llm_plan call in a thread of  *)
(* its own (asyncio.to_thread), and the calls' steps interleave.           *)

\* The calls.
Calls == {1, 2}

(* A mutation of FrameOf: the calls keep their local variables in one      *)
(* place, as module-level variables would be kept.                         *)
FrameOf_shared(c) == 1

(* Where call c keeps its local variables (hints, the loop's out /         *)
(* remaining_budget_sol / index, actions): in the frame of its own         *)
(* invocation.                                                             *)
FrameOf(c) == c

\* The local variables of generate_plan and _sanitize_actions before they
\* are assigned.
NewFrame ==
    [hints |-> effective_caps(None),
     st |-> [kept |-> <<>>, remaining |-> None, acts |-> <<>>, log |-> <<>>,
             src |-> <<>>, stop |-> FALSE],
     i |-> 1,
     actions |-> <<>>]

---------------------------------------------------------------------------
(* wallet/agent_wallet.py *)

APPROVAL_THRESHOLD == 5

\* The keys of PROTOCOL_PROGRAM_IDS
PROTOCOL_PROGRAM_IDS == {"marinade", "jito", "solblaze"}

(* An amount of the wallet is [sol, nano]: sol whole SOL and nano          *)
(* billionths of one, 0 <= nano < 10^9.  It stands for the float nearest   *)
(* sol + nano / 10^9 and for the int sol * 10^9 + nano of lamports, which  *)
(* is beyond 32 bits from 2.147 SOL on.  A double keeps 15 digits, so the  *)
(* float of an amount of less than 10^6 SOL is above 5.0 exactly when the  *)
(* amount is.                                                              *)
SolAmount(sol, nano) == [sol |-> sol, nano |-> nano]

\* amount_lamports / LAMPORTS_PER_SOL
LamportsToSol(amount_lamports) ==
    SolAmount(amount_lamports.sol, amount_lamports.nano)

\* A mutation of _requires_human_approval: amount >= APPROVAL_THRESHOLD
requires_human_approval_ge(amount) == amount.sol >= APPROVAL_THRESHOLD

\* _requires_human_approval(amount): amount > APPROVAL_THRESHOLD
requires_human_approval(amount) ==
    \/ amount.sol > APPROVAL_THRESHOLD
    \/ amount.sol = APPROVAL_THRESHOLD /\ amount.nano > 0

(* What a call of the wallet gives: raised is the exception ("" when it    *)
(* returns); key is the approval key of the returned dict and approval its *)
(* value; signature and simulationError say whether the dict has the key.  *)
Returned(key, approval, signature, simulationError) ==
    [raised |-> "", key |-> key, approval |-> approval,
     signature |-> signature, simulationError |-> simulationError]
Raised(exception) ==
    [raised |-> exception, key |-> NoKey, approval |-> FALSE,
     signature |-> FALSE, simulationError |-> FALSE]

(* The network during a call, net: built says the steps before the         *)
(* submission succeed (PublicKey(recipient), the two requests of a swap,   *)
(* deserialize), sim_err that simulate_transaction reports an error, and   *)
(* sent that send_transaction returns.  The result of a call is [result,   *)
(* submitted]: submitted lists the calls of send_transaction.              *)
Submit(op, key, net) ==
    [result |-> IF net.sent THEN Returned(key, FALSE, TRUE, FALSE)
                ELSE Raised("RPCException"),
     submitted |-> <<op>>]

\* send_sol(recipient, amount)
send_sol(amount, net) ==
    IF requires_human_approval(amount)
    THEN [result |-> Returned("requires_human_approval", TRUE, FALSE, FALSE),
          submitted |-> <<>>]
    ELSE IF ~net.built THEN [result |-> Raised("ValueError"), submitted |-> <<>>]
    ELSE Submit("send_sol", "requires_human_approval", net)

\* swap_tokens(from_mint, to_mint, amount)
swap_tokens(amount, net) ==
    IF requires_human_approval(amount)
    THEN [result |-> Returned("requires_human_approval", TRUE, FALSE, FALSE),
          submitted |-> <<>>]
    ELSE IF ~net.built THEN [result |-> Raised("RequestException"), submitted |-> <<>>]
    ELSE Submit("swap_tokens", "requires_human_approval", net)

\* stake_sol(protocol, amount_lamports); unstake_sol has the same body
stake_sol(op, protocol, amount_lamports, net) ==
    IF protocol \notin PROTOCOL_PROGRAM_IDS
    THEN [result |-> Raised("ValueError"), submitted |-> <<>>]
    ELSE IF requires_human_approval(LamportsToSol(amount_lamports))
    THEN [result |-> Returned("requiresApproval", TRUE, FALSE, FALSE),
          submitted |-> <<>>]
    ELSE IF net.sim_err
    THEN [result |-> Returned("requiresApproval", FALSE, FALSE, TRUE),
          submitted |-> <<>>]
    ELSE Submit(op, "requiresApproval", net)

---------------------------------------------------------------------------
(* Inputs of the sanitizer *)

\* Longest action list given to the sanitizer.
MaxLen == 3

RawAction(verb, params) ==
    [verb |-> verb, params |-> params, why |-> NoKey, risk |-> NoKey,
     requires_approval |-> NoKey, timestamp |-> 0, chain |-> NoKey]

Tokens(amount) ==
    [has_in |-> TRUE, has_out |-> TRUE, amount |-> amount, protocol |-> NoKey]

Amt004 == StrAmt(4 * CentiSol)      \* "0.04"
AmtBig == StrAmt(30 * CentiSol)     \* "0.3"
AmtNeg == StrAmt(-CentiSol)         \* "-0.01"
AmtZero == StrAmt(0)                \* "0"
AmtFloat == NumAmt(4 * CentiSol + 1) \* a float just above 0.04

\* The raw actions the planner may propose (one of each shape the code tells apart).
RawActions ==
    { RawAction("balance", EmptyParams),
      RawAction("quote", Tokens(Amt004)),
      RawAction("quote", [EmptyParams EXCEPT !.has_in = TRUE, !.amount = AmtBig]),
      RawAction("swap", Tokens(AmtFloat)),
      RawAction("SWAP", Tokens(AbsentAmt)),
      RawAction("stake", [EmptyParams EXCEPT !.amount = AmtBig]),
      [RawAction(" Stake ", [EmptyParams EXCEPT !.amount = AmtNeg,
                                                !.protocol = "marinade"])
          EXCEPT !.timestamp = 7, !.why = "yield"],
      [RawAction("unstake", [EmptyParams EXCEPT !.amount = BadAmt])
          EXCEPT !.requires_approval = "False"],
      RawAction("unstake", [EmptyParams EXCEPT !.amount = AmtZero]),
      RawAction("transfer", Tokens(Amt004)) }

\* remaining_budget_sol values: None, an empty wallet, 0.05, 0.05 and 2/3 lamport, 0.3
Budgets == { None, Some(0), Some(5 * CentiSol), Some(5 * CentiSol + 2),
             Some(30 * CentiSol) }

\* per_action_cap_sol as _effective_caps derives it: min(hard_cap_sol, budget).
CapFor(budget) ==
    IF budget.has THEN Some(Max(0, Min(25 * CentiSol, budget.v))) ELSE None

SanConfigs ==
    { [max_actions |-> m, budget |-> b, cap |-> CapFor(b), chain |-> "solana",
       auto_micro |-> mi] :
         m \in {1, 2, 3}, b \in Budgets, mi \in {None, Some(2 * CentiSol)} }

---------------------------------------------------------------------------
(* Inputs of decide_size and build_exec_ready_plan *)

\* Most entries an options list holds.
MaxOptions == 5

\* Balances around the buffers (2,700,000) and the hard cap plus the buffers.
BalanceInputs == { -1, 0, 2699999, 2700000, 2700001, 100000000, 252700000,
                   252700001, 420000000 }
DesiredInputs == { -7, 0, 1, 97300000, 250000000, 250000001, 2000000000 }

OptionEntry(name, strategy, summary, rationale, plan) ==
    [is_dict |-> TRUE, name |-> name, strategy |-> strategy, summary |-> summary,
     plan_summary |-> NoKey, rationale |-> rationale, tradeoffs |-> NoKey,
     plan |-> plan]

\* An options entry that is no dict (a string).
StringEntry ==
    [is_dict |-> FALSE, name |-> NoKey, strategy |-> NoKey, summary |-> NoKey,
     plan_summary |-> NoKey, rationale |-> NoKey, tradeoffs |-> NoKey,
     plan |-> NoSteps]

OptionEntries ==
    { OptionEntry("Safe", "Hold and stake", NoKey, "Low risk",
          Steps(<<Step("quote", None, AmountDecimal(5, 2))>>)),
      OptionEntry("Yield", NoKey, NoKey, NoKey, NoSteps),
      OptionEntry(NoKey, "", NoKey, NoKey,
          Steps(<<Step("balance", None, AmountAbsent),
                  Step("stake", Some(30000000), AmountAbsent)>>)),
      StringEntry }

NoOptions == [has |-> FALSE, items |-> <<>>]
OptionLists ==
    {NoOptions} \cup { [has |-> TRUE, items |-> l] : l \in SeqUpTo(OptionEntries, MaxOptions) }

Wallets ==
    { [given |-> FALSE, lamports |-> None, sol_balance |-> None],
      [given |-> TRUE, lamports |-> Some(420000000), sol_balance |-> None],
      [given |-> TRUE, lamports |-> None, sol_balance |-> Some(Dec(1, 1))],
      [given |-> TRUE, lamports |-> Some(0), sol_balance |-> Some(Dec(26, 4))],
      [given |-> TRUE, lamports |-> Some(-5), sol_balance |-> Some(Dec(1, 0))] }

NoSizing == [has |-> FALSE, desired_lamports |-> None, desired_sol |-> None]
Sizings ==
    { NoSizing,
      [has |-> TRUE, desired_lamports |-> Some(97300000), desired_sol |-> None],
      [has |-> TRUE, desired_lamports |-> Some(-5), desired_sol |-> Some(Dec(25, 2))],
      [has |-> TRUE, desired_lamports |-> None, desired_sol |-> Some(Dec(4, 10))] }

NoBudgetDict == [has |-> FALSE, per_trade_sol |-> None, per_action_cap_sol |-> None,
                 per_tick_sol |-> None]
BudgetDicts ==
    { NoBudgetDict,
      [has |-> TRUE, per_trade_sol |-> Some(Dec(0, 0)),
       per_action_cap_sol |-> Some(Dec(5, 2)), per_tick_sol |-> Some(Dec(1, 0))],
      [has |-> TRUE, per_trade_sol |-> Some(Dec(4, 10)),
       per_action_cap_sol |-> None, per_tick_sol |-> Some(Dec(1, 0))] }

RootActions ==
    { NoSteps,
      Steps(<<NotADictStep, Step("stake", None, AmountDecimal(-4, 2)),
              Step("stake", None, AmountDecimal(4, 2))>>) }

DesiredArgs == { None, Some(-7), Some(2000000000) }

RawPlan(sizing, budget, actions, options) ==
    [sizing |-> sizing, budget |-> budget, actions |-> actions, options |-> options]

\* Values of a horizon_days key: missing, True, "soon", -3, 0, 14, "90",
\* 7.9, 0.5, "14.5".
HorizonValues ==
    { AmountAbsent, [AmountAbsent EXCEPT !.kind = "bool"], AmountBad,
      AmountInt(-3), AmountInt(0), AmountInt(14), AmountDigits(90, 2),
      AmountFloat(79, 1), AmountFloat(5, 1), AmountDecimal(145, 1) }

Simulations ==
    { [is_dict |-> FALSE, horizon_days |-> AmountAbsent] }
    \cup { [is_dict |-> TRUE, horizon_days |-> h] : h \in HorizonValues }

\* A raw plan with the keys simulation and horizon_days and no other.
HorizonPlan(simulation, horizon_days) ==
    [sizing |-> NoSizing, budget |-> NoBudgetDict, actions |-> NoSteps,
     options |-> NoOptions, simulation |-> simulation, horizon_days |-> horizon_days]

\* The raw plans: every sizing source with at most one option, and every
\* options list with the sizing sources of the first kind or the last.
RawPlans ==
    { RawPlan(sz, bu, ac, op) :
         sz \in Sizings, bu \in BudgetDicts, ac \in RootActions,
         op \in { o \in OptionLists : Len(o.items) <= 1 } }
    \cup
    { RawPlan(NoSizing, NoBudgetDict, NoSteps, op) : op \in OptionLists }
    \cup
    { HorizonPlan(s, h) : s \in Simulations, h \in HorizonValues }

---------------------------------------------------------------------------
(* Inputs of build_exec_ready_plan: values of any shape *)

\* sizing: missing or no dict, desired_sol inf / nan, desired_lamports
\* positive next to a desired_sol that is inf.
AnySizings ==
    { NoSizing,
      [has |-> TRUE, desired_lamports |-> None, desired_sol |-> Some(Inf)],
      [has |-> TRUE, desired_lamports |-> None, desired_sol |-> Some(NaN)],
      [has |-> TRUE, desired_lamports |-> Some(5), desired_sol |-> Some(Inf)] }

AnyBudgets ==
    { NoBudgetDict,
      [has |-> TRUE, per_trade_sol |-> Some(Inf), per_action_cap_sol |-> None,
       per_tick_sol |-> None],
      [has |-> TRUE, per_trade_sol |-> Some(NaN),
       per_action_cap_sol |-> Some(Dec(5, 2)), per_tick_sol |-> Some(Inf)] }

\* actions: missing or no Sequence (a scalar), or steps of every kind
AnyActions ==
    { NoSteps,
      Steps(<<NotADictStep, Step("stake", None, AmountFloat(1, -1))>>),
      Steps(<<Step("stake", Some(30000000), AmountFloat(1, -1))>>),
      Steps(<<Step("stake", None, AmountBad),
              Step("stake", None, AmountDecimal(4, 2))>>) }

\* options: missing or no Sequence, a string (its characters are the
\* entries), a list with an amount that is no number
AnyOptions ==
    { NoOptions,
      [has |-> TRUE, items |-> <<StringEntry, StringEntry>>],
      [has |-> TRUE,
       items |-> <<OptionEntry("Safe", NoKey, NoKey, NoKey,
                       Steps(<<Step("stake", None, AmountFloat(0, -1))>>))>>] }

\* raw_plan: None, a list, a string, or a dict
AnyRawPlans ==
    { [is_dict |-> FALSE, data |-> EmptyPlanData] }
    \cup { [is_dict |-> TRUE, data |-> RawPlan(sz, bu, ac, op)] :
             sz \in AnySizings, bu \in AnyBudgets, ac \in AnyActions,
             op \in AnyOptions }

(* wallet_state: None / {} / 0 / "" (falsy), a truthy value that is no     *)
(* mapping ("0.42", 5, [1]), or a dict with the entries of state           *)
AnyWallets ==
    { [is_dict |-> FALSE,
       state |-> [given |-> FALSE, lamports |-> None, sol_balance |-> None]],
      [is_dict |-> FALSE,
       state |-> [given |-> TRUE, lamports |-> None, sol_balance |-> None]],
      [is_dict |-> TRUE,
       state |-> [given |-> TRUE, lamports |-> None, sol_balance |-> Some(NaN)]],
      [is_dict |-> TRUE,
       state |-> [given |-> TRUE, lamports |-> Some(0), sol_balance |-> Some(Inf)]],
      [is_dict |-> TRUE,
       state |-> [given |-> TRUE, lamports |-> Some(5), sol_balance |-> Some(Inf)]],
      [is_dict |-> TRUE,
       state |-> [given |-> TRUE, lamports |-> None, sol_balance |-> Some(Dec(42, 2))]] }

---------------------------------------------------------------------------
(* Inputs of _sanitize_actions: elements of any shape *)

AnyElements ==
    { Element("dict", RawAction("balance", EmptyParams)),
      Element("dict", RawAction("stake", [EmptyParams EXCEPT !.amount = AmtBig])),
      Element("dict", RawAction("quote", Tokens(Amt004))),
      Element("dict", RawAction("transfer", Tokens(Amt004))),
      Element("not_a_dict", RawAction(NoKey, EmptyParams)),
      Element("verb_not_str", RawAction(NoKey, EmptyParams)),
      Element("verb_falsy", RawAction(NoKey, Tokens(Amt004))),
      Element("params_not_dict", RawAction("stake", EmptyParams)),
      Element("params_not_dict", RawAction("transfer", EmptyParams)) }

AnyConfigs ==
    { [max_actions |-> m, budget |-> b, cap |-> CapFor(b), chain |-> "solana",
       auto_micro |-> None] :
         m \in {1, 2, 3}, b \in {None, Some(30 * CentiSol)} }

---------------------------------------------------------------------------
(* Inputs of generate_plan *)

\* Most entries an options list of the planner's output holds.
MaxGenOptions == 2

\* Action lists the planner may propose as an option's plan or at the root.
PlanStake      == << RawAction("stake", [EmptyParams EXCEPT !.amount = AmtBig]) >>
PlanQuoteStake == << RawAction("quote", [EmptyParams EXCEPT !.has_in = TRUE,
                                                            !.amount = AmtBig]),
                     RawAction("stake", [EmptyParams EXCEPT !.amount = AmtBig]) >>
PlanSwapQuote  == << RawAction("swap", Tokens(AmtFloat)),
                     RawAction("quote", Tokens(Amt004)) >>

\* Option entries: a dict with or without a "plan" key, or a bare string.
GenOptionEntries ==
    { PlanOption(name, NoKey, plan) :
         name \in {"Standard", " Yield "},
         plan \in {NoSteps, Steps(<<>>), Steps(PlanQuoteStake), Steps(PlanSwapQuote)} }
    \cup { StringOption("do something safe") }

GenOptions ==
    {OptionsAbsent, OptionsString("do something safe")}
    \cup { OptionsList(l) : l \in SeqUpTo(GenOptionEntries, MaxGenOptions) }

GenRootActions == { <<>>, PlanStake, PlanSwapQuote }
GenDefaultOptions == { NoKey, "YIELD", "Nope" }

\* What _llm_plan_call does: it raises, or it returns a plan.
LlmOutcomes ==
    { [raises |-> TRUE, plan |-> ModelPlan(NoKey, OptionsAbsent, <<>>)] }
    \cup { [raises |-> FALSE, plan |-> ModelPlan(d, o, a)] :
             d \in GenDefaultOptions, o \in GenOptions, a \in GenRootActions }

\* A plan whose amount is a float below half a lamport (a third of one).
PlanDust == << RawAction("unstake", [EmptyParams EXCEPT !.amount = NumAmt(1)]) >>

\* Options that name such a plan, a plan of one stake, or no plan.
DustOptionEntries ==
    { PlanOption(name, NoKey, plan) :
         name \in {"Standard", "Yield"},
         plan \in {NoSteps, Steps(PlanDust), Steps(PlanStake)} }

\* Planner outputs with one option or more over these entries.
DustOutcomes ==
    { [raises |-> FALSE, plan |-> ModelPlan(d, OptionsList(l), a)] :
         d \in {NoKey, "Yield"},
         l \in SeqUpTo(DustOptionEntries, MaxGenOptions) \ {<<>>},
         a \in {<<>>, PlanDust} }

\* wallet_state: none, empty, 0.42 SOL, 0.1 SOL, 0.053 SOL and 2/3 lamport
GenWallets == { None, Some(0), Some(42 * CentiSol), Some(10 * CentiSol),
                Some(53 * (CentiSol \div 10) + 2) }

GenMaxActions == {1, 2, 3}

\* The arguments of a planning: the planner's root actions (it names no
\* options), the wallet and max_actions.
CallArgs ==
    { [actions |-> a, wallet |-> w, max_actions |-> m] :
         a \in {PlanStake, PlanQuoteStake, PlanSwapQuote},
         w \in {Some(42 * CentiSol), Some(10 * CentiSol)},
         m \in {2, 3} }

\* Lamport values: 0.25 SOL and up, in steps of the fee buffers.
MaxSteps == 120
LamportInputs == { 250000000 + i * BUFFERS_LAMPORTS : i \in 0..MaxSteps }

\* Amount values as a plan's step carries them.
AmountValues ==
    { AmountAbsent, AmountBad, AmountInt(2), AmountInt(1250000000),
      AmountDigits(2, 1), AmountDigits(250000000, 9),
      AmountDecimal(25, 2), AmountDecimal(2527, 4), AmountDecimal(-2527, 4),
      AmountFloat(25, 2), AmountFloat(2527, 4), AmountDecimal(250000004, 10),
      AmountDigits(1500000000, 10), AmountDigits(15000, 5), AmountDigits(2, 4),
      AmountDecimal(15, 1) }

\* Amount values as an action's params carry them: missing, not numeric,
\* "0", "-0.01", "0.04", 0, -0.01, a float just above 0.04.
StrAmountValues ==
    { AbsentAmt, BadAmt, StrAmt(0), StrAmt(-CentiSol), StrAmt(4 * CentiSol),
      NumAmt(0), NumAmt(-CentiSol), NumAmt(4 * CentiSol + 1) }

\* Amounts of the wallet around the threshold of 5 SOL
WalletAmounts ==
    { SolAmount(0, 0), SolAmount(0, 1), SolAmount(1, 500000000),
      SolAmount(4, 999999999), SolAmount(5, 0), SolAmount(5, 1),
      SolAmount(5, 500000000), SolAmount(6, 0), SolAmount(250, 0) }

Protocols == PROTOCOL_PROGRAM_IDS \cup {"lido"}

Networks == [built : BOOLEAN, sim_err : BOOLEAN, sent : BOOLEAN]

---------------------------------------------------------------------------
(* The calls *)

NoResult == [out |-> <<>>, src |-> <<>>, kept |-> <<>>, injected |-> <<>>,
             reordered |-> <<>>, log |-> <<>>, remaining |-> None, acts |-> <<>>]
NoConfig == [max_actions |-> 0, budget |-> None, cap |-> None,
             chain |-> "solana", auto_micro |-> None]

Init ==
    /\ pc = "idle"
    /\ ds_balance = 0 /\ ds_desired = 0 /\ ds_result = 0
    /\ raw_plan = <<>> /\ wallet_state = <<>> /\ desired_arg = None
    /\ exec_plan = <<>>
    /\ san_actions = <<>> /\ san_cfg = NoConfig
    /\ san_res = NoResult /\ san_res2 = NoResult
    /\ gen_llm = <<>> /\ gen_wallet = None /\ gen_max = 0 /\ gen_out = <<>>
    /\ any_raw = <<>> /\ any_wallet = <<>> /\ any_out = <<>>
    /\ mal_elems = <<>> /\ mal_cfg = NoConfig /\ mal_out = <<>>
    /\ call_args = <<>> /\ call_pc = [c \in Calls |-> "idle"]
    /\ frames = [c \in Calls |-> NewFrame] /\ call_out = [c \in Calls |-> <<>>]
    /\ co_in = <<>> /\ co_out = <<>>
    /\ aw_call = <<>> /\ aw_result = <<>> /\ aw_submitted = <<>>

\* A first call of _sanitize_actions, at clock reading 1.
Sanitize ==
    /\ pc = "idle"
    /\ \E actions \in SeqUpTo(RawActions, MaxLen), cfg \in SanConfigs :
          /\ san_actions' = actions
          /\ san_cfg' = cfg
          /\ san_res' = sanitize_actions(actions, cfg, 1)
    /\ pc' = "sanitized"
    /\ UNCHANGED <<san_res2, sizeVars, planVars, genVars, anyVars, malVars, callVars, coVars, awVars>>

\* The returned list is sanitized again with the same arguments, at clock reading 2.
Resanitize ==
    /\ pc = "sanitized"
    /\ san_res2' = sanitize_actions(san_res.out, san_cfg, 2)
    /\ pc' = "resanitized"
    /\ UNCHANGED <<san_actions, san_cfg, san_res, sizeVars, planVars, genVars,
                   anyVars, malVars, callVars, coVars, awVars>>

\* A call of decide_size.
DecideSize ==
    /\ pc = "idle"
    /\ \E balance \in BalanceInputs, desired \in DesiredInputs :
          /\ ds_balance' = balance
          /\ ds_desired' = desired
          /\ ds_result' = decide_size(balance, desired)
    /\ pc' = "sized"
    /\ UNCHANGED <<planVars, sanVars, genVars, anyVars, malVars, callVars, coVars, awVars>>

\* A call of build_exec_ready_plan.
BuildExecReadyPlan ==
    /\ pc = "idle"
    /\ \E plan \in RawPlans, wallet \in Wallets, desired \in DesiredArgs :
          /\ plan.options.has /\ Len(plan.options.items) > 1 => desired = None
          /\ raw_plan' = plan
          /\ wallet_state' = wallet
          /\ desired_arg' = desired
          /\ exec_plan' = build_exec_ready_plan(plan, wallet, desired)
    /\ pc' = "built"
    /\ UNCHANGED <<sizeVars, sanVars, genVars, anyVars, malVars, callVars, coVars, awVars>>

\* A call of generate_plan (what plan() serialises for the server).
GeneratePlan ==
    /\ pc = "idle"
    /\ \E llm \in LlmOutcomes, wallet \in GenWallets, m \in GenMaxActions :
          /\ gen_llm' = llm
          /\ gen_wallet' = wallet
          /\ gen_max' = m
          /\ gen_out' = generate_plan(llm, wallet, m)
    /\ pc' = "generated"
    /\ UNCHANGED <<sizeVars, planVars, sanVars, anyVars, malVars, callVars, coVars, awVars>>

\* A call of generate_plan on a planner output with amounts below a lamport.
GeneratePlanDust ==
    /\ pc = "idle"
    /\ \E llm \in DustOutcomes, wallet \in {Some(0), Some(42 * CentiSol)},
          m \in GenMaxActions :
          /\ gen_llm' = llm
          /\ gen_wallet' = wallet
          /\ gen_max' = m
          /\ gen_out' = generate_plan(llm, wallet, m)
    /\ pc' = "generated"
    /\ UNCHANGED <<sizeVars, planVars, sanVars, anyVars, malVars, callVars, coVars, awVars>>

\* plan_cmd: the parsed planner output goes to build_exec_ready_plan with
\* the wallet state _call_planner read.
Assemble ==
    /\ pc = "generated"
    /\ raw_plan' = PlanDict(gen_out)
    /\ wallet_state' = WalletState(gen_wallet)
    /\ desired_arg' = None
    /\ exec_plan' = build_exec_ready_plan(PlanDict(gen_out), WalletState(gen_wallet), None)
    /\ pc' = "assembled"
    /\ UNCHANGED <<sizeVars, sanVars, genVars, anyVars, malVars, callVars, coVars, awVars>>

\* A call of build_exec_ready_plan on values of any shape: it returns or raises.
BuildOnAnyInput ==
    /\ pc = "idle"
    /\ \E raw \in AnyRawPlans, wallet \in AnyWallets :
          /\ any_raw' = raw
          /\ any_wallet' = wallet
          /\ any_out' = build_exec_ready_plan_call(raw, wallet)
          /\ pc' = IF build_exec_ready_plan_call(raw, wallet).raised = ""
                   THEN "returned" ELSE "raised"
    /\ UNCHANGED <<sizeVars, planVars, sanVars, genVars, malVars, callVars, coVars, awVars>>

\* A call of _sanitize_actions on elements of any shape: it returns or raises.
SanitizeAnyElements ==
    /\ pc = "idle"
    /\ \E elems \in SeqUpTo(AnyElements, MaxLen), cfg \in AnyConfigs :
          /\ mal_elems' = elems
          /\ mal_cfg' = cfg
          /\ mal_out' = sanitize_actions_call(elems, cfg, 1)
          /\ pc' = IF mal_out'.raised = "" THEN "san_returned" ELSE "san_raised"
    /\ UNCHANGED <<sizeVars, planVars, sanVars, genVars, anyVars, callVars, coVars, awVars>>

\* Two users send /plan: each call gets its arguments.
CallsBegin ==
    /\ pc = "idle"
    /\ \E a1 \in CallArgs, a2 \in CallArgs : call_args' = <<a1, a2>>
    /\ call_pc' = [c \in Calls |-> "caps"]
    /\ pc' = "concurrent"
    /\ UNCHANGED <<frames, call_out, sizeVars, planVars, sanVars, genVars,
                   anyVars, malVars, coVars, awVars>>

\* generate_plan of call c up to the loop of _sanitize_actions: the caps, the
\* chosen actions (the root actions), remaining = hints["max_affordable_sol"].
CallCaps(c) ==
    /\ pc = "concurrent" /\ call_pc[c] = "caps"
    /\ LET hints == effective_caps(call_args[c].wallet)
       IN  frames' = [frames EXCEPT ![FrameOf(c)] =
              [hints |-> hints,
               st |-> [kept |-> <<>>, remaining |-> Some(hints.max_affordable_sol),
                       acts |-> call_args[c].actions, log |-> <<>>,
                       src |-> <<>>, stop |-> FALSE],
               i |-> 1,
               actions |-> <<>>]]
    /\ call_pc' = [call_pc EXCEPT ![c] = "loop"]
    /\ UNCHANGED <<pc, call_args, call_out, sizeVars, planVars, sanVars, genVars,
                   anyVars, malVars, coVars, awVars>>

\* One iteration of the loop of _sanitize_actions in call c.
CallLoopStep(c) ==
    /\ pc = "concurrent" /\ call_pc[c] = "loop"
    /\ LET f == frames[FrameOf(c)]
       IN  /\ f.i <= Len(f.st.acts) /\ ~f.st.stop
           /\ frames' = [frames EXCEPT ![FrameOf(c)] =
                  [f EXCEPT !.st = LoopBody(f.i, f.st,
                                      PlanConfig(f.hints, call_args[c].max_actions), 2),
                            !.i = f.i + 1]]
    /\ UNCHANGED <<pc, call_args, call_pc, call_out, sizeVars, planVars, sanVars,
                   genVars, anyVars, malVars, coVars, awVars>>

\* The loop of call c is over: balance insertion, quote relocation, slice.
CallLoopExit(c) ==
    /\ pc = "concurrent" /\ call_pc[c] = "loop"
    /\ LET f   == frames[FrameOf(c)]
           inj == InjectBalance(f.st.kept, f.st.src, 2, "solana")
           re  == ReorderQuote(inj)
       IN  /\ f.i > Len(f.st.acts) \/ f.st.stop
           /\ frames' = [frames EXCEPT ![FrameOf(c)] =
                  [f EXCEPT !.actions = Truncate(re.out, call_args[c].max_actions)]]
    /\ call_pc' = [call_pc EXCEPT ![c] = "assemble"]
    /\ UNCHANGED <<pc, call_args, call_out, sizeVars, planVars, sanVars, genVars,
                   anyVars, malVars, coVars, awVars>>

\* Call c returns: generate_plan's mapping goes to build_exec_ready_plan.
CallAssemble(c) ==
    /\ pc = "concurrent" /\ call_pc[c] = "assemble"
    /\ LET f == frames[FrameOf(c)]
           generated == [budget |-> f.hints, actions |-> f.actions, options |-> <<>>]
       IN  call_out' = [call_out EXCEPT ![c] =
              [actions |-> f.actions,
               budget |-> f.hints,
               sizing |-> build_exec_ready_plan(PlanDict(generated),
                              WalletState(call_args[c].wallet), None).sizing]]
    /\ call_pc' = [call_pc EXCEPT ![c] = "done"]
    /\ UNCHANGED <<pc, call_args, frames, sizeVars, planVars, sanVars, genVars,
                   anyVars, malVars, coVars, awVars>>

\* A lamport value becomes an amount in SOL and comes back through
\* to_lamports and through _parse_amount_lamports.
CoerceLamports ==
    /\ pc = "idle"
    /\ \E lamports \in LamportInputs :
          /\ co_in' = lamports
          /\ co_out' = [sol |-> from_lamports(lamports),
                        to_lamports |-> to_lamports(from_lamports(lamports)),
                        parsed |-> parse_amount_lamports(
                            [AmountAbsent EXCEPT !.kind = "float",
                                                 !.x = from_lamports(lamports)])]
    /\ pc' = "coerced"
    /\ UNCHANGED <<sizeVars, planVars, sanVars, genVars, anyVars, malVars,
                   callVars, awVars>>

\* A call of _parse_amount_lamports.
ParseAmount ==
    /\ pc = "idle"
    /\ \E value \in AmountValues :
          /\ co_in' = value
          /\ co_out' = [parsed |-> parse_amount_lamports(value)]
    /\ pc' = "parsed"
    /\ UNCHANGED <<sizeVars, planVars, sanVars, genVars, anyVars, malVars,
                   callVars, awVars>>

\* A call of _coerce_str_amount(v, default).
CoerceStrAmount ==
    /\ pc = "idle"
    /\ \E v \in StrAmountValues, default \in {DEFAULT_AMOUNT_STR, StrAmt(5 * CentiSol)} :
          /\ co_in' = [v |-> v, default |-> default]
          /\ co_out' = [str |-> coerce_str_amount(v, default),
                        float |-> to_float_amount(v, default.val)]
    /\ pc' = "str_coerced"
    /\ UNCHANGED <<sizeVars, planVars, sanVars, genVars, anyVars, malVars,
                   callVars, awVars>>

\* The calls of the agent wallet
WalletCall(op, protocol, amount, net, outcome) ==
    /\ pc = "idle"
    /\ aw_call' = [op |-> op, protocol |-> protocol, amount |-> amount, net |-> net]
    /\ aw_result' = outcome.result
    /\ aw_submitted' = outcome.submitted
    /\ pc' = "wallet"
    /\ UNCHANGED <<sizeVars, planVars, sanVars, genVars, anyVars, malVars,
                   callVars, coVars>>

SendSol ==
    \E amount \in WalletAmounts, net \in Networks :
        WalletCall("send_sol", NoKey, amount, net, send_sol(amount, net))

SwapTokens ==
    \E amount \in WalletAmounts, net \in Networks :
        WalletCall("swap_tokens", NoKey, amount, net, swap_tokens(amount, net))

StakeSol ==
    \E protocol \in Protocols, amount \in WalletAmounts, net \in Networks :
        WalletCall("stake_sol", protocol, amount, net,
                   stake_sol("stake_sol", protocol, amount, net))

UnstakeSol ==
    \E protocol \in Protocols, amount \in WalletAmounts, net \in Networks :
        WalletCall("unstake_sol", protocol, amount, net,
                   stake_sol("unstake_sol", protocol, amount, net))

NextPlan == DecideSize \/ BuildExecReadyPlan

SpecPlan == Init /\ [][NextPlan]_vars

NextSanitize == Sanitize \/ Resanitize

SpecSanitize == Init /\ [][NextSanitize]_vars

NextPipeline == GeneratePlan \/ Assemble

SpecPipeline == Init /\ [][NextPipeline]_vars

\* build_exec_ready_plan called on a raw plan of any origin: the planner's
\* output (plan_cmd) or a plan passed in directly.
NextAssemble == BuildExecReadyPlan \/ GeneratePlan \/ Assemble

SpecAssemble == Init /\ [][NextAssemble]_vars

\* build_exec_ready_plan on arguments of any shape
NextAnyInput == BuildOnAnyInput

SpecAnyInput == Init /\ [][NextAnyInput]_vars

\* Amounts between lamports and SOL
NextCoercion == CoerceLamports \/ ParseAmount \/ CoerceStrAmount

SpecCoercion == Init /\ [][NextCoercion]_vars

\* generate_plan on options that share or repeat a plan
NextOptions == GeneratePlanDust

SpecOptions == Init /\ [][NextOptions]_vars

\* The agent wallet
NextWallet == SendSol \/ SwapTokens \/ StakeSol \/ UnstakeSol

SpecWallet == Init /\ [][NextWallet]_vars

\* Two plannings whose steps interleave
NextConcurrent ==
    \/ CallsBegin
    \/ \E c \in Calls : CallCaps(c)
    \/ \E c \in Calls : CallLoopStep(c)
    \/ \E c \in Calls : CallLoopExit(c)
    \/ \E c \in Calls : CallAssemble(c)

SpecConcurrent == Init /\ [][NextConcurrent]_vars

\* _sanitize_actions on lists of well-formed and malformed elements
NextAnyElements == SanitizeAnyElements

SpecAnyElements == Init /\ [][NextAnyElements]_vars

---------------------------------------------------------------------------
(* Properties of sizing and options (specification SpecPlan) *)

\* C1: for every balance and desired amount, negative ones and a balance below
\* the buffers included, decide_size returns r with 0 <= r, r <= hard cap,
\* r <= max(0, balance - buffers) and r <= max(0, desired).
C1_DecideSizeBounds ==
    pc = "sized" =>
        /\ 0 <= ds_result
        /\ ds_result <= HARD_CAP_LAMPORTS
        /\ ds_result <= Max(0, ds_balance - BUFFERS_LAMPORTS)
        /\ ds_result <= Max(0, ds_desired)

\* C1 witness: decide_size was called with a negative desired amount and a
\* positive balance below the buffers.
C1_Witness ==
    /\ pc = "sized"
    /\ ds_desired < 0
    /\ ds_balance > 0 /\ ds_balance < BUFFERS_LAMPORTS
    /\ ds_result = 0

\* C2: the sizing record of every returned plan has final_lamports =
\* max(0, min(desired_lamports, wallet balance - buffers_lamports, hard cap)),
\* buffers_lamports being the buffers subtracted and desired_lamports >= 0.
C2_SizingInvariant ==
    pc = "built" =>
        LET sizing == exec_plan.sizing
        IN  /\ sizing.desired_lamports >= 0
            /\ sizing.buffers_lamports =
                  FEE_BUFFER_LAMPORTS + TIP_LAMPORTS + RENT_ATA_LAMPORTS
            /\ sizing.final_lamports =
                  Max(0, Min3(sizing.desired_lamports,
                              WalletLamports(wallet_state) - sizing.buffers_lamports,
                              HARD_CAP_LAMPORTS))

\* C2 witness: a plan was built whose size is what the wallet holds beyond the
\* buffers, below both the desired amount and the hard cap.
C2_Witness ==
    /\ pc = "built"
    /\ WalletLamports(wallet_state) > exec_plan.sizing.buffers_lamports
    /\ exec_plan.sizing.final_lamports =
          WalletLamports(wallet_state) - exec_plan.sizing.buffers_lamports
    /\ exec_plan.sizing.final_lamports < exec_plan.sizing.desired_lamports
    /\ exec_plan.sizing.final_lamports < HARD_CAP_LAMPORTS

\* C10: whatever the number of source entries, the plan carries exactly three
\* options tagged Conservative, Standard, Aggressive in that order; a source
\* mapping at a bucket's index keeps its name, its (non-empty) strategy and its
\* rationale, keeps its plan or gets an empty one when it had none, and a bucket
\* without a source mapping gets the placeholder named after the bucket.
C10_ThreeBuckets ==
    pc = "built" =>
        LET options == exec_plan.options
            items   == raw_plan.options.items
        IN  /\ Len(options) = 3
            /\ options[1].bucket = "Conservative"
            /\ options[2].bucket = "Standard"
            /\ options[3].bucket = "Aggressive"
            /\ \A idx \in 1..3 :
                  IF idx <= Len(items) /\ items[idx].is_dict
                  THEN LET source == items[idx]
                       IN  /\ source.name # NoKey => options[idx].name = source.name
                           /\ (source.strategy # NoKey /\ source.strategy # "")
                                 => options[idx].strategy = source.strategy
                           /\ source.rationale # NoKey
                                 => options[idx].rationale = source.rationale
                           /\ options[idx].plan =
                                 IF source.plan.has THEN source.plan.steps ELSE <<>>
                  ELSE /\ options[idx].name = options[idx].bucket
                       /\ options[idx].strategy = options[idx].bucket \o " scenario"
                       /\ options[idx].rationale = ""
                       /\ options[idx].plan = <<>>

\* C10 witness: a plan was built from five source entries, the first a mapping
\* with its own name, strategy and rationale, the second without a plan.
C10_Witness ==
    /\ pc = "built"
    /\ Len(raw_plan.options.items) = 5
    /\ raw_plan.options.items[1].is_dict
    /\ raw_plan.options.items[1].name = "Safe"
    /\ exec_plan.options[1].strategy = "Hold and stake"
    /\ raw_plan.options.items[2].is_dict
    /\ ~raw_plan.options.items[2].plan.has
    /\ exec_plan.options[2].plan = <<>>

---------------------------------------------------------------------------
(* Properties of the sanitizer (specification SpecSanitize) *)

Sanitized == pc \in {"sanitized", "resanitized"}
HasVerb(list, v) == IndexOfVerb(list, v) # 0
Clamping == san_cfg.budget.has /\ san_cfg.cap.has
MoneyIdx(list) == { k \in 1..Len(list) : list[k].verb \in MONEY_VERBS }

\* The log entry of the clamp applied to input action i.
LogEntry(res, i) == CHOOSE e \in { res.log[j] : j \in 1..Len(res.log) } : e.index = i

RECURSIVE SumAmounts(_, _)
SumAmounts(list, K) ==
    IF K = {} THEN 0
    ELSE LET k == CHOOSE x \in K : TRUE
         IN  list[k].params.amount.val + SumAmounts(list, K \ {k})

\* C3: the sanitized output is never empty and its first action is a balance
\* action, whatever the input list and max_actions.
C3_BalanceFirst ==
    Sanitized => /\ Len(san_res.out) >= 1
                 /\ san_res.out[1].verb = "balance"

C5_SumWithinBudget ==
    (Sanitized /\ Clamping) =>
        /\ \A k \in MoneyIdx(san_res.out) : san_res.out[k].params.amount.val >= 0
        /\ SumAmounts(san_res.out, MoneyIdx(san_res.out)) <= san_cfg.budget.v

\* C6: every emitted quote/swap/stake/unstake amount is at most
\* min(per_action_cap, the budget remaining just before its clamp), and a
\* non-positive or unparseable request gets what a request of the default gets.
C6_WithinCapAndRemaining ==
    (Sanitized /\ Clamping) =>
        \A k \in MoneyIdx(san_res.out) :
            LET e       == LogEntry(san_res, san_res.src[k])
                amount  == san_res.out[k].params.amount
                default == MicroOrDefault(san_cfg)
            IN  /\ amount.kind = "str"
                /\ amount.val <= Min(san_cfg.cap.v, e.before)
                /\ (e.requested.kind \in {"absent", "bad"} \/ e.requested.val <= 0)
                      => amount = clamp_amount_to_budget_and_cap(NumAmt(default),
                                      e.before, san_cfg.cap.v, default).amount

\* C7: sanitizing the sanitized list again, with the same budget, cap and
\* max_actions, returns the same list.
C7_Idempotent ==
    pc = "resanitized" => san_res2.out = san_res.out

\* C8: every output verb is one of balance, quote, swap, stake, unstake, and
\* the input actions with any other verb leave no trace: the output is the one
\* the input without them gives.
C8_OnlyAllowedVerbs ==
    Sanitized =>
        LET Allowed(a) == LowerStrip(a.verb) \in
                              {"balance", "quote", "swap", "stake", "unstake"}
        IN  /\ \A k \in 1..Len(san_res.out) : Allowed(san_res.out[k])
            /\ san_res.out =
                  sanitize_actions(SelectSeq(san_actions, Allowed), san_cfg, 1).out

\* C8 witness: an action with a foreign verb stood before a kept action.
C8_Witness ==
    /\ Sanitized
    /\ \E i \in 1..Len(san_actions) :
          /\ san_actions[i].verb = "transfer"
          /\ \E k \in 1..Len(san_res.out) : san_res.src[k] > i

\* C9: an emitted quote or swap has in, out and a string amount, and none is
\* made from a quote or swap lacking a token field; an emitted stake or unstake
\* has a string amount and the source's protocol, "jito" when it gave none.
C9_ParamsComplete ==
    Sanitized =>
        /\ \A k \in 1..Len(san_res.out) :
              LET a == san_res.out[k]
              IN  /\ a.verb \in {"quote", "swap"} =>
                        /\ a.params.has_in /\ a.params.has_out
                        /\ a.params.amount.kind = "str"
                  /\ a.verb \in {"stake", "unstake"} =>
                        LET given == san_actions[san_res.src[k]].params.protocol
                        IN  /\ a.params.amount.kind = "str"
                            /\ a.params.protocol =
                                  IF given = NoKey THEN "jito" ELSE given
        /\ \A i \in 1..Len(san_actions) :
              LET a == san_actions[i]
              IN  (/\ LowerStrip(a.verb) \in {"quote", "swap"}
                   /\ ~(a.params.has_in /\ a.params.has_out))
                  => \A k \in 1..Len(san_res.out) : san_res.src[k] # i

\* C9 witness: a stake without a protocol was emitted after a quote without
\* its out token was dropped.
C9_Witness ==
    /\ Sanitized
    /\ \E i \in 1..Len(san_actions) :
          /\ san_actions[i].verb = "quote" /\ ~san_actions[i].params.has_out
          /\ \E k \in 1..Len(san_res.out) :
                /\ san_res.src[k] > i
                /\ san_res.out[k].verb = "stake"
                /\ san_actions[san_res.src[k]].params.protocol = NoKey
                /\ san_res.out[k].params.protocol = "jito"

---------------------------------------------------------------------------
(* Properties of the pipeline generate_plan -> build_exec_ready_plan       *)
(* (specification SpecPipeline)                                            *)

\* The verbs and amounts of a list of sanitized actions.
VerbsAmounts(list) ==
    [k \in 1..Len(list) |-> <<list[k].verb, list[k].params.amount>>]
\* The verbs of the steps of an assembled option.
StepVerbs(steps) == [k \in 1..Len(steps) |-> steps[k].verb]

\* The planner's output carries options as the string "do something safe".
StringOptionsCase ==
    /\ pc = "assembled"
    /\ ~gen_llm.raises
    /\ gen_llm.plan.options = OptionsString("do something safe")

C12_RootMirrorsDefault ==
    pc \in {"generated", "assembled"} /\ gen_out.chosen # 0 =>
        VerbsAmounts(gen_out.actions)
            = VerbsAmounts(gen_out.options[gen_out.chosen].plan.steps)

---------------------------------------------------------------------------
(* Properties of the returned mapping (specification SpecPlan) *)

(* C13: for a raw plan with options and a wallet state,                    *)
(* build_exec_ready_plan returns a mapping with the keys options, sizing,  *)
(* frame, baseline and playback_text whose actions list holds at least one *)
(* action with verb balance.                                               *)
C13_RequiredFieldsAndBalance ==
    pc = "built" /\ raw_plan.options.has /\ raw_plan.options.items # <<>>
                 /\ wallet_state.given =>
        /\ {"options", "sizing", "frame", "baseline", "playback_text"}
               \subseteq exec_plan.keys
        /\ \E k \in 1..Len(ExecActions(exec_plan)) :
               ExecActions(exec_plan)[k].verb = "balance"

\* The amounts of the money actions of a sanitized list.
AmountsOf(list) ==
    { list[k].params.amount.val :
         k \in { j \in 1..Len(list) : list[j].verb \in MONEY_VERBS } }

(* C18: when the LLM call raises, generate_plan returns a mapping with     *)
(* summary, options, risks and root actions built from the fallback plan,  *)
(* sanitized against the wallet: they start with balance, every amount is  *)
(* within the per-action cap and the affordable budget, and the amounts    *)
(* are 0 when the wallet is empty.                                         *)
C18_FallbackSanitized ==
    pc \in {"generated", "assembled"} /\ gen_llm.raises =>
        /\ {"summary", "options", "risks", "actions"} \subseteq gen_out.keys
        /\ Len(gen_out.options) = 1
        /\ Len(gen_out.actions) > 0
        /\ gen_out.actions[1].verb = "balance"
        /\ \A x \in AmountsOf(gen_out.actions) :
              /\ x <= gen_out.budget.per_action_cap_sol
              /\ x <= gen_out.budget.max_affordable_sol
        /\ gen_out.budget.sol_balance = 0 => AmountsOf(gen_out.actions) \subseteq {0}

---------------------------------------------------------------------------
(* Properties of the final size (specification SpecAssemble) *)

\* build_exec_ready_plan ran on a wallet of 0.42 SOL and a raw plan without
\* a sizing mapping (and no desired_lamports argument).
NoSizingCase ==
    /\ pc \in {"built", "assembled"}
    /\ WalletLamports(wallet_state) = 420000000
    /\ ~raw_plan.sizing.has
    /\ desired_arg = None

\* The raw plan names no amount: no budget, no amount in the root actions
\* or in an option's plan.
NamesNoAmount(plan) ==
    /\ ~plan.budget.has
    /\ parse_amount_from_actions(plan.actions) = 0
    /\ \A k \in 1..Len(plan.options.items) :
          OptionPlanLamports(plan.options.items[k]) = 0

(* C14 as stated: with a wallet of 0.42 SOL (420,000,000 lamports) and a   *)
(* raw plan that carries no explicit sizing, the final size is 0.25 SOL    *)
(* (250,000,000 lamports).                                                 *)
C14_NoSizingGivesHardCap ==
    NoSizingCase => exec_plan.sizing.final_lamports = 250000000

(* C14 amended: with a wallet of 0.42 SOL and no explicit sizing, the      *)
(* final size is 250,000,000 lamports when the raw plan is generate_plan's *)
(* output (its budget names the per-action cap of 0.25 SOL); for any raw   *)
(* plan it is the amount the cascade finds (budget, root actions, option   *)
(* plans), at most 250,000,000, and 0 when the raw plan names no amount.   *)
C14_HardCapLimited ==
    NoSizingCase =>
        /\ pc = "assembled" => exec_plan.sizing.final_lamports = 250000000
        /\ exec_plan.sizing.final_lamports
              = Min(HARD_CAP_LAMPORTS, exec_plan.sizing.desired_lamports)
        /\ NamesNoAmount(raw_plan) => exec_plan.sizing.final_lamports = 0

\* C14 witness: the planner returned a plan of its own for a 0.42 SOL
\* wallet, and the assembled size is the hard cap.
C14_Witness ==
    /\ NoSizingCase
    /\ pc = "assembled"
    /\ ~gen_llm.raises
    /\ Len(gen_out.actions) > 1
    /\ exec_plan.sizing.final_lamports = 250000000

---------------------------------------------------------------------------
(* Properties of the fee buffer (specification SpecPlan) *)

(* C15: with a wallet balance of 0.1 SOL (100,000,000 lamports) and a      *)
(* desired amount of 0.25 SOL, the final size is the balance minus a fee   *)
(* buffer of 0.003 SOL: 97,000,000 lamports.                               *)
C15_BalanceLimited ==
    /\ pc = "sized" /\ ds_balance = 100000000 /\ ds_desired = 250000000
          => ds_result = 97000000
    /\ pc = "built" /\ WalletLamports(wallet_state) = 100000000
                    /\ exec_plan.sizing.desired_lamports = 250000000
          => exec_plan.sizing.final_lamports = 97000000

---------------------------------------------------------------------------
(* Properties of the calls on malformed values (specification SpecAnyInput) *)

(* C16: build_exec_ready_plan never raises and returns a structurally      *)
(* complete plan (goal, summary, frame, 3 options, baseline, sizing,       *)
(* playback_text, risks, horizon_days, raw_plan) for a raw plan of any     *)
(* shape and any wallet state value.                                       *)
C16_NeverRaises ==
    /\ pc # "raised"
    /\ pc = "returned" =>
          /\ any_out.raised = ""
          /\ EXEC_KEYS \subseteq any_out.plan.keys
          /\ Len(any_out.plan.options) = 3

(* C17: the action sanitizer recovers from malformed actions without       *)
(* raising: a list with an element that is no mapping, a verb that is no   *)
(* string or params that are no mapping yields a sanitized list.           *)
C17_SanitizerNeverRaises ==
    /\ pc # "san_raised"
    /\ pc = "san_returned" =>
          /\ mal_out.raised = ""
          /\ \A k \in 1..Len(mal_out.out) : mal_out.out[k].verb \in ALLOWED_VERBS

---------------------------------------------------------------------------
(* Properties of concurrent plannings (specification SpecConcurrent) *)

\* A list of actions without its timestamps (readings of the wall clock).
Untimed(list) == [k \in 1..Len(list) |-> [list[k] EXCEPT !.timestamp = 0]]

\* What the planning with the arguments args returns when it runs alone.
Alone(args) ==
    LET g == generate_plan(
                 [raises |-> FALSE,
                  plan |-> ModelPlan(NoKey, OptionsAbsent, args.actions)],
                 args.wallet, args.max_actions)
    IN  [actions |-> g.actions,
         budget |-> g.budget,
         sizing |-> build_exec_ready_plan(PlanDict(g), WalletState(args.wallet),
                                          None).sizing]

(* C19: two planning invocations whose steps interleave arbitrarily each   *)
(* return exactly what they return when run alone (timestamps aside): the  *)
(* same actions, the same budget and the same sizing.                      *)
C19_Independent ==
    pc = "concurrent" =>
        \A c \in Calls :
            call_pc[c] = "done" =>
                /\ Untimed(call_out[c].actions) = Untimed(Alone(call_args[c]).actions)
                /\ call_out[c].budget = Alone(call_args[c]).budget
                /\ call_out[c].sizing = Alone(call_args[c]).sizing

\* C19 witness: call 2 ran from its first step to its last while call 1 was
\* inside its loop, on other arguments, and the two results differ.
C19_Witness ==
    /\ pc = "concurrent"
    /\ call_pc[2] = "done"
    /\ call_pc[1] = "loop" /\ frames[FrameOf(1)].i = 2
    /\ call_args[1].wallet # call_args[2].wallet
    /\ call_args[1].actions # call_args[2].actions
    /\ Len(call_out[2].actions) > 1
    /\ call_out[2].sizing.final_lamports = 97000000

---------------------------------------------------------------------------
(* Properties of amount coercion (specification SpecCoercion) *)

(* C20: an integer lamport value converted to its amount in SOL and back   *)
(* is the same integer, through to_lamports and through                    *)
(* _parse_amount_lamports, and the decimal string "0.25" coerces to        *)
(* exactly 250000000 lamports.                                             *)
C20_RoundTripExact ==
    /\ pc = "coerced" =>
          /\ co_out.to_lamports = co_in
          /\ co_out.parsed = co_in
    /\ pc = "parsed" /\ co_in = AmountDecimal(25, 2) => co_out.parsed = 250000000

---------------------------------------------------------------------------
(* Properties of the agent wallet (specification SpecWallet) *)

ApprovalRequired(result) == result.raised = "" /\ result.approval

\* The amount is more than 5 SOL, in lamports: more than 5 * 10^9
AboveFiveSol(amount) == amount.sol >= 6 \/ (amount.sol = 5 /\ amount.nano >= 1)

---------------------------------------------------------------------------
(* Further properties of the sanitizer (specification SpecSanitize) *)

(* C22: when the loop kept max_actions actions, none of them a balance,    *)
(* the output is the injected balance action followed by those             *)
(* max_actions actions (a quote moved before its swap aside, in the order  *)
(* the loop kept them): its length is max_actions + 1 and no kept action   *)
(* is displaced by the injected balance.                                   *)
C22_InjectAfterTruncation ==
    (/\ Sanitized
     /\ san_cfg.max_actions >= 1
     /\ Len(san_res.kept) = san_cfg.max_actions
     /\ ~HasVerb(san_res.kept, "balance"))
    => /\ Len(san_res.out) = san_cfg.max_actions + 1
       /\ san_res.out[1] = InjectedBalance(1, san_cfg.chain)
       /\ \A k \in 1..Len(san_res.kept) :
             \E j \in 2..Len(san_res.out) : san_res.out[j] = san_res.kept[k]

---------------------------------------------------------------------------
(* Properties of the options (specification SpecOptions) *)

(* C23: the sanitized plan of each option is what _sanitize_actions gives  *)
(* for that option's own plan (the root actions when it names none)        *)
(* against the affordable budget and the per-action cap of the wallet,     *)
(* timestamps aside: whatever the other options hold, in whatever order,   *)
(* and whether or not the plan was sanitized before as the default one.    *)
C23_OptionsIndependent ==
    pc = "generated" =>
        \A k \in 1..Len(gen_out.options) :
            Untimed(gen_out.options[k].plan.steps)
                = Untimed(sanitize_actions(gen_out.norm_options[k].plan.steps,
                              PlanConfig(gen_out.budget, gen_max), 1).out)

---------------------------------------------------------------------------
(* Further properties of the assembled plan (specification SpecPlan) *)

\* What each source of the desired amount yields in lamports, in the order
\* of priority: sizing.desired_lamports, sizing.desired_sol, the three budget
\* keys, the root actions, the plan of the first option.
CascadeSources(plan) ==
    << IF plan.sizing.has THEN safe_int(plan.sizing.desired_lamports, 0) ELSE 0,
       IF plan.sizing.has THEN SolToLamports(safe_float(plan.sizing.desired_sol)) ELSE 0,
       IF plan.budget.has THEN SolToLamports(safe_float(plan.budget.per_trade_sol)) ELSE 0,
       IF plan.budget.has THEN SolToLamports(safe_float(plan.budget.per_action_cap_sol)) ELSE 0,
       IF plan.budget.has THEN SolToLamports(safe_float(plan.budget.per_tick_sol)) ELSE 0,
       parse_amount_from_actions(plan.actions),
       IF plan.options.has /\ Len(plan.options.items) >= 1
       THEN OptionPlanLamports(plan.options.items[1]) ELSE 0 >>

\* C24: with no desired_lamports argument, the desired amount of the plan is
\* what the first source of the cascade with a positive amount yields
\* (sizing.desired_lamports, sizing.desired_sol, the budget keys, the root
\* actions, the first option's plan), and 0 when no source is positive.
C24_DesiredCascade ==
    (pc = "built" /\ ~desired_arg.has)
        => exec_plan.sizing.desired_lamports = FirstPositive(CascadeSources(raw_plan))

\* The sources of the desired amount in the order of priority, each with
\* whether it is taken (its value is positive) and the lamports it then
\* yields: the sizing and budget values in SOL are tested before they are
\* converted, and every option's plan is a source, in the order of the list.
CascadeTaken(plan) ==
    LET SolSource(has, v) == [taken  |-> has /\ safe_float(v).m > 0,
                              yields |-> SolToLamports(safe_float(v))]
        LamportSource(n)  == [taken |-> n > 0, yields |-> n]
    IN  << LamportSource(IF plan.sizing.has
                         THEN safe_int(plan.sizing.desired_lamports, 0) ELSE 0),
           SolSource(plan.sizing.has, plan.sizing.desired_sol),
           SolSource(plan.budget.has, plan.budget.per_trade_sol),
           SolSource(plan.budget.has, plan.budget.per_action_cap_sol),
           SolSource(plan.budget.has, plan.budget.per_tick_sol),
           LamportSource(parse_amount_from_actions(plan.actions)) >>
        \o [k \in 1..(IF plan.options.has THEN Len(plan.options.items) ELSE 0) |->
               LamportSource(OptionPlanLamports(plan.options.items[k]))]

\* C24 (amended): with no desired_lamports argument, the desired amount is
\* what the first taken source yields, every option's plan being a source in
\* the order of the list, and 0 when no source is taken.
C24_DesiredCascadeAllOptions ==
    (pc = "built" /\ ~desired_arg.has)
        => LET srcs == CascadeTaken(raw_plan)
           IN  IF \E k \in 1..Len(srcs) : srcs[k].taken
               THEN exec_plan.sizing.desired_lamports
                      = srcs[CHOOSE k \in 1..Len(srcs) :
                                srcs[k].taken /\ \A j \in 1..(k - 1) : ~srcs[j].taken].yields
               ELSE exec_plan.sizing.desired_lamports = 0

\* A plan whose first option names no amount and whose second option does:
\* the desired amount is the second option's.
C24_Witness ==
    /\ pc = "built" /\ ~desired_arg.has
    /\ raw_plan.options.has /\ Len(raw_plan.options.items) >= 2
    /\ ~raw_plan.sizing.has /\ ~raw_plan.budget.has
    /\ parse_amount_from_actions(raw_plan.actions) = 0
    /\ OptionPlanLamports(raw_plan.options.items[1]) = 0
    /\ OptionPlanLamports(raw_plan.options.items[2]) > 0
    /\ exec_plan.sizing.desired_lamports = OptionPlanLamports(raw_plan.options.items[2])

---------------------------------------------------------------------------
(* Further properties of the sanitizer: approval and budget *)

\* The emitted action j of the result res was not given requires_approval by
\* its source: it is the inserted balance action (res.src[j] = 0), or it was
\* made from an action of the caller's list that had no such key.
ApprovalUnset(res, j) ==
    \/ res.src[j] = 0
    \/ /\ res.src[j] > 0
       /\ san_actions[res.src[j]].requires_approval = NoKey

\* C25: every emitted swap, stake or unstake action whose source did not set
\* requires_approval has requires_approval true, and every emitted balance or
\* quote action whose source did not set it, the inserted balance action
\* included, has requires_approval false.
C25_ApprovalDefaults ==
    Sanitized =>
        \A j \in 1..Len(san_res.out) :
            LET e == san_res.out[j]
            IN  ApprovalUnset(san_res, j) =>
                   /\ e.verb \in {"swap", "stake", "unstake"} => e.requires_approval = "True"
                   /\ e.verb \in {"balance", "quote"} => e.requires_approval = "False"

\* A result that holds the inserted balance action, without approval, and a
\* swap made from an action without the key, with approval.
C25_Witness ==
    /\ Sanitized
    /\ \E j \in 1..Len(san_res.out) :
          /\ san_res.src[j] = 0
          /\ san_res.out[j].verb = "balance"
          /\ san_res.out[j].requires_approval = "False"
    /\ \E j \in 1..Len(san_res.out) :
          /\ san_res.src[j] > 0
          /\ san_res.out[j].verb = "swap"
          /\ san_actions[san_res.src[j]].requires_approval = NoKey
          /\ san_res.out[j].requires_approval = "True"

\* The indices, in the caller's list, of the actions the loop emitted.
EmittedIdx ==
    LET st == Loop(1, [kept |-> <<>>, remaining |-> san_cfg.budget,
                       acts |-> san_actions, log |-> <<>>, src |-> <<>>,
                       stop |-> FALSE], san_cfg, 1)
    IN  { st.src[k] : k \in 1..Len(st.src) }

\* The sum of the amounts the clamp granted to the emitted actions before
\* input action i (what each took from the budget: before - after).
RECURSIVE GrantedBefore(_, _)
GrantedBefore(log, i) ==
    IF log = <<>> THEN 0
    ELSE (IF log[1].index < i /\ log[1].index \in EmittedIdx
          THEN log[1].before - log[1].after ELSE 0)
         + GrantedBefore(Tail(log), i)

\* C26: inside one pass, the budget available to an action is the original
\* remaining budget minus the sum of the clamped amounts of the actions
\* emitted before it; a dropped action takes nothing from the budget.
C26_BudgetOfEmitted ==
    (Sanitized /\ Clamping) =>
        \A j \in 1..Len(san_res.log) :
            san_res.log[j].before
                = san_cfg.budget.v - GrantedBefore(san_res.log, san_res.log[j].index)

---------------------------------------------------------------------------
(* Further properties of the coercions (specification SpecCoercion) *)

\* x SOL in lamports, exactly (x a Dec with at most 9 decimals).
ExactLamports(x) == x.m * TenTo(9 - x.d)

\* C27: a string of 5 or more digits is taken as lamports unchanged, a string
\* of at most 4 digits or a decimal string (of at most 9 decimals) is taken
\* as SOL and multiplied by 1,000,000,000.
C27_DigitTieBreak ==
    pc = "parsed" =>
        /\ (co_in.kind = "digits" /\ co_in.len >= 5) => co_out.parsed = co_in.n
        /\ (co_in.kind = "digits" /\ co_in.len <= 4)
              => co_out.parsed = co_in.n * LAMPORTS_PER_SOL
        /\ (co_in.kind = "decimal" /\ co_in.x.d <= 9)
              => co_out.parsed = ExactLamports(co_in.x)

\* The input of a coercion is missing, not numeric, zero or negative.
NoPositiveAmount(v) == v.kind \in {"absent", "bad"} \/ v.val <= 0

\* C28: amount coercion yields no negative amount, and on an input that is
\* missing, not numeric, zero or negative it yields the caller's default
\* (_coerce_str_amount and _to_float_amount); _parse_amount_lamports yields
\* no negative amount.
C28_CoercionDefaults ==
    /\ pc = "str_coerced" =>
          /\ co_out.str.val >= 0
          /\ co_out.float >= 0
          /\ NoPositiveAmount(co_in.v) =>
                /\ co_out.str = co_in.default
                /\ co_out.float = co_in.default.val
    /\ pc = "parsed" => co_out.parsed >= 0

\* The horizon the raw plan supplies: the value of simulation.horizon_days
\* when it is a number (or spells one), else the value of the root key.
IsNumber(v) == v.kind \in {"int", "digits", "float", "decimal"}
SuppliedHorizon(plan) ==
    LET sim  == IF "simulation" \in DOMAIN plan /\ plan.simulation.is_dict
                THEN plan.simulation.horizon_days ELSE AmountAbsent
        root == IF "horizon_days" \in DOMAIN plan THEN plan.horizon_days
                ELSE AmountAbsent
    IN  IF IsNumber(sim) THEN sim ELSE root

---------------------------------------------------------------------------
(* Frame of the sanitizer (specification SpecSanitize) *)

\* C30: _sanitize_actions leaves its input alone: when it returns, the
\* caller's action mappings hold the values they held before the call.
C30_InputsUnchanged ==
    Sanitized => san_res.acts = san_actions

====
